---- MODULE Spec2Model ----
(***************************************************************************)
(* Model of the smithy-rs client orchestrator:                             *)
(*   rust-runtime/aws-smithy-runtime/src/client/orchestrator.rs            *)
(*   rust-runtime/aws-smithy-runtime-api/src/client/interceptors/context.rs*)
(* One invocation of invoke / invoke_with_stop_point is a run of the state *)
(* machine; pc is the driver's position, ctx the InterceptorContext.       *)
(***************************************************************************)
EXTENDS Integers, Sequences, FiniteSets, TLC

\* ---------------------------------------------------------------- bounds
\* number of loop iterations the retry strategy is allowed to ask for
MaxAttempts == 2
\* number of failing events (hook failure, collaborator failure, timeout) in a run
MaxFaults == 2
\* registered interceptors per scope (the error-handling tests register 1 and 2)
NumClient == 1
NumOperation == 2

\* ---------------------------------------------------------------- options
None == <<>>
Some(x) == <<x>>
IsSome(o) == o # <<>>
IsNone(o) == o = <<>>
Unwrap(o) == o[1]

\* ---------------------------------------------------------------- phases
Phases ==
  <<"BeforeSerialization", "Serialization", "BeforeTransmit", "Transmit",
    "BeforeDeserialization", "Deserialization", "AfterDeserialization">>

PhaseOrd(p) == CHOOSE k \in 1..Len(Phases) : Phases[k] = p

\* ---------------------------------------------------------------- hooks
PreLoopHooks ==
  <<"read_before_execution", "read_before_serialization", "modify_before_serialization",
    "read_after_serialization", "modify_before_retry_loop">>

AttemptHooks ==
  <<"read_before_attempt", "modify_before_signing", "read_before_signing",
    "read_after_signing", "modify_before_transmit", "read_before_transmit",
    "read_after_transmit", "modify_before_deserialization", "read_before_deserialization",
    "read_after_deserialization">>

AttemptFinalizers == <<"modify_before_attempt_completion", "read_after_attempt">>

OperationFinalizers == <<"modify_before_completion", "read_after_execution">>

Range(s) == {s[k] : k \in 1..Len(s)}

AllHooks ==
  Range(PreLoopHooks) \cup Range(AttemptHooks) \cup Range(AttemptFinalizers)
    \cup Range(OperationFinalizers)

\* ---------------------------------------------------------------- interceptors
\* client-scope interceptors are registered first, operation-scope ones after
ClientInterceptors == [k \in 1..NumClient |-> k]
OperationInterceptors == [k \in 1..NumOperation |-> NumClient + k]
MergedInterceptorsOperationFirst == OperationInterceptors \o ClientInterceptors

\* RuntimeComponents::builder(..).merge_from(client).merge_from(operation)
MergedInterceptors == ClientInterceptors \o OperationInterceptors

\* ---------------------------------------------------------------- errors
\* OrchestratorError: kind is one of interceptor / other / connector / response /
\* operation / timeout; source names the hook or step; by the failing interceptor
Err(kind, source, by) == [tag |-> "Err", kind |-> kind, source |-> source, by |-> by]
Ok == [tag |-> "Ok", kind |-> "", source |-> "", by |-> 0]
InterceptorError(hook, by) == Err("interceptor", hook, by)
OtherError(source) == Err("other", source, 0)

\* ---------------------------------------------------------------- requests
\* An HttpRequest: method, uri, headers, version and whether the body can be cloned
Request(m, u, h, v, c) ==
  [method |-> m, uri |-> u, headers |-> h, version |-> v, body_clonable |-> c]

\* what the request serializer may produce
SerializedRequests ==
  { Request("GET", "/", {"test"}, "HTTP/1.1", TRUE),
    Request("GET", "/", {"test"}, "HTTP/2", TRUE),
    Request("GET", "/", {"test"}, "HTTP/1.1", FALSE) }

try_clone_drop_headers(request) ==
  IF ~request.body_clonable THEN None
  ELSE Some(Request(request.method, request.uri, {}, "HTTP/1.1", TRUE))

\* context.rs try_clone: None when the body cannot be cloned; otherwise a request
\* built from uri, method, headers and the cloned body (the builder's default version)
try_clone(request) ==
  IF ~request.body_clonable THEN None
  ELSE Some(Request(request.method, request.uri, request.headers, "HTTP/1.1", TRUE))

\* ---------------------------------------------------------------- InterceptorContext
\* InterceptorContext::new
NewContext ==
  [input |-> Some("input"), output_or_error |-> None, request |-> None,
   response |-> None, phase |-> "BeforeSerialization", tainted |-> FALSE,
   request_checkpoint |-> None]

is_failed(c) == IsSome(c.output_or_error) /\ Unwrap(c.output_or_error).tag = "Err"

fail_keeps_first(c, error) ==
  IF is_failed(c) THEN c ELSE [c EXCEPT !.output_or_error = Some(error)]

\* InterceptorContext::fail: an error already present is replaced
fail(c, error) == [c EXCEPT !.output_or_error = Some(error)]

take_input(c) == [c EXCEPT !.input = None]
set_request(c, r) == [c EXCEPT !.request = Some(r)]
take_request(c) == [c EXCEPT !.request = None]
set_response(c, r) == [c EXCEPT !.response = Some(r)]
set_output_or_error(c, o) == [c EXCEPT !.output_or_error = Some(o)]

\* the debug_assert!s of the enter_*_phase methods
pre_enter_serialization_phase(c) == c.phase = "BeforeSerialization"
pre_enter_before_transmit_phase_phase_only(c) == c.phase = "Serialization"

pre_enter_before_transmit_phase(c) ==
  c.phase = "Serialization" /\ IsNone(c.input) /\ IsSome(c.request)
pre_enter_transmit_phase(c) == c.phase = "BeforeTransmit"
pre_enter_before_deserialization_phase(c) ==
  c.phase = "Transmit" /\ IsNone(c.request) /\ IsSome(c.response)
pre_enter_deserialization_phase(c) == c.phase = "BeforeDeserialization"
pre_enter_after_deserialization_phase(c) ==
  c.phase = "Deserialization" /\ IsSome(c.output_or_error)

enter_serialization_phase(c) == [c EXCEPT !.phase = "Serialization"]

\* also stores a clone of the freshly serialized request as the checkpoint
enter_before_transmit_phase(c) ==
  [c EXCEPT !.request_checkpoint =
              IF IsSome(c.request) THEN try_clone(Unwrap(c.request)) ELSE None,
            !.phase = "BeforeTransmit"]

enter_transmit_phase(c) == [c EXCEPT !.phase = "Transmit"]
enter_before_deserialization_phase_skips(c) == [c EXCEPT !.phase = "Deserialization"]

enter_before_deserialization_phase(c) == [c EXCEPT !.phase = "BeforeDeserialization"]
enter_deserialization_phase(c) == [c EXCEPT !.phase = "Deserialization"]
enter_after_deserialization_phase(c) == [c EXCEPT !.phase = "AfterDeserialization"]

save_checkpoint(c) ==
  [c EXCEPT !.request_checkpoint =
              IF IsSome(c.request) THEN try_clone(Unwrap(c.request)) ELSE None]

rewind_always_restores(c) ==
  IF IsNone(c.request_checkpoint) /\ c.tainted
  THEN [result |-> "Impossible", ctx |-> c]
  ELSE IF IsNone(c.request_checkpoint)
  THEN [result |-> "Unnecessary", ctx |-> [c EXCEPT !.tainted = TRUE]]
  ELSE [result |-> "Occurred",
        ctx |-> [c EXCEPT !.tainted = TRUE,
                          !.phase = "BeforeTransmit",
                          !.request = try_clone(Unwrap(c.request_checkpoint)),
                          !.response = None,
                          !.output_or_error = None]]

rewind_late_check(c) ==
  IF ~c.tainted
  THEN [result |-> "Unnecessary", ctx |-> [c EXCEPT !.tainted = TRUE]]
  ELSE IF IsNone(c.request_checkpoint)
  THEN [result |-> "Impossible",
        ctx |-> [c EXCEPT !.phase = "BeforeTransmit",
                          !.response = None,
                          !.output_or_error = None]]
  ELSE [result |-> "Occurred",
        ctx |-> [c EXCEPT !.phase = "BeforeTransmit",
                          !.request = try_clone(Unwrap(c.request_checkpoint)),
                          !.response = None,
                          !.output_or_error = None]]

rewind_keep_request(c) ==
  IF IsNone(c.request_checkpoint) /\ c.tainted
  THEN [result |-> "Impossible", ctx |-> c]
  ELSE IF ~c.tainted
  THEN [result |-> "Unnecessary", ctx |-> [c EXCEPT !.tainted = TRUE]]
  ELSE [result |-> "Occurred",
        ctx |-> [c EXCEPT !.phase = "BeforeTransmit",
                          !.response = None,
                          !.output_or_error = None]]

rewind_keeps_response(c) ==
  IF IsNone(c.request_checkpoint) /\ c.tainted
  THEN [result |-> "Impossible", ctx |-> c]
  ELSE IF ~c.tainted
  THEN [result |-> "Unnecessary", ctx |-> [c EXCEPT !.tainted = TRUE]]
  ELSE [result |-> "Occurred",
        ctx |-> [c EXCEPT !.phase = "BeforeTransmit",
                          !.request = try_clone(Unwrap(c.request_checkpoint)),
                          !.output_or_error = None]]

rewind_keeps_error(c) ==
  IF IsNone(c.request_checkpoint) /\ c.tainted
  THEN [result |-> "Impossible", ctx |-> c]
  ELSE IF ~c.tainted
  THEN [result |-> "Unnecessary", ctx |-> [c EXCEPT !.tainted = TRUE]]
  ELSE [result |-> "Occurred",
        ctx |-> [c EXCEPT !.phase = "BeforeTransmit",
                          !.request = try_clone(Unwrap(c.request_checkpoint)),
                          !.response = None]]

rewind_keeps_phase(c) ==
  IF IsNone(c.request_checkpoint) /\ c.tainted
  THEN [result |-> "Impossible", ctx |-> c]
  ELSE IF ~c.tainted
  THEN [result |-> "Unnecessary", ctx |-> [c EXCEPT !.tainted = TRUE]]
  ELSE [result |-> "Occurred",
        ctx |-> [c EXCEPT !.request = try_clone(Unwrap(c.request_checkpoint)),
                          !.response = None,
                          !.output_or_error = None]]

rewind_restores_input(c) ==
  IF IsNone(c.request_checkpoint) /\ c.tainted
  THEN [result |-> "Impossible", ctx |-> c]
  ELSE IF ~c.tainted
  THEN [result |-> "Unnecessary", ctx |-> [c EXCEPT !.tainted = TRUE]]
  ELSE [result |-> "Occurred",
        ctx |-> [c EXCEPT !.phase = "BeforeTransmit",
                          !.input = Some("input"),
                          !.request = try_clone(Unwrap(c.request_checkpoint)),
                          !.response = None,
                          !.output_or_error = None]]

\* InterceptorContext::rewind
rewind(c) ==
  IF IsNone(c.request_checkpoint) /\ c.tainted
  THEN [result |-> "Impossible", ctx |-> c]
  ELSE IF ~c.tainted
  THEN [result |-> "Unnecessary", ctx |-> [c EXCEPT !.tainted = TRUE]]
  ELSE [result |-> "Occurred",
        ctx |-> [c EXCEPT !.phase = "BeforeTransmit",
                          !.request = try_clone(Unwrap(c.request_checkpoint)),
                          !.response = None,
                          !.output_or_error = None]]

\* ---------------------------------------------------------------- dispatch
\* the failure patterns tried at one hook point: nobody fails, only the first
\* registered interceptor fails (the others run after a failure), everybody fails
FailureSets(list) ==
  IF list = <<>> THEN {{}} ELSE {{}, {Head(list)}, Range(list)}

Ev(name, by, ok) == [name |-> name, by |-> by, ok |-> ok]

RECURSIVE DispatchLoopHalting(_, _, _, _)
DispatchLoopHalting(hook, list, fails, acc) ==
  IF list = <<>> \/ IsSome(acc.result) THEN acc
  ELSE LET k == Head(list) IN
       DispatchLoopHalting(hook, Tail(list), fails,
            [result |-> IF k \in fails THEN Some(k) ELSE acc.result,
             calls |-> Append(acc.calls, Ev(hook, k, k \notin fails))])

RECURSIVE DispatchLoopFirstWins(_, _, _, _)
DispatchLoopFirstWins(hook, list, fails, acc) ==
  IF list = <<>> THEN acc
  ELSE LET k == Head(list) IN
       DispatchLoopFirstWins(hook, Tail(list), fails,
            [result |-> IF k \in fails /\ IsNone(acc.result) THEN Some(k) ELSE acc.result,
             calls |-> Append(acc.calls, Ev(hook, k, k \notin fails))])

\* Interceptors::new(list).<hook>(ctx, rc, cfg): every interceptor of the list is
\* called in order; the error of the last failing one is the result
\* (interceptor_error_handling_test: A, B and C are all called, C's error is returned)
RECURSIVE DispatchLoop(_, _, _, _)
DispatchLoop(hook, list, fails, acc) ==
  IF list = <<>> THEN acc
  ELSE LET k == Head(list) IN
       DispatchLoop(hook, Tail(list), fails,
            [result |-> IF k \in fails THEN Some(k) ELSE acc.result,
             calls |-> Append(acc.calls, Ev(hook, k, k \notin fails))])

DispatchHalting(hook, list, fails) ==
  DispatchLoopHalting(hook, list, fails, [result |-> None, calls |-> <<>>])

DispatchFirstWins(hook, list, fails) ==
  DispatchLoopFirstWins(hook, list, fails, [result |-> None, calls |-> <<>>])

Dispatch(hook, list, fails) == DispatchLoop(hook, list, fails, [result |-> None, calls |-> <<>>])

\* ---------------------------------------------------------------- results
\* what the caller gets: Ok(output), Ok(context) or Err(SdkError of some kind)
Result(tag, kind, error) == [tag |-> tag, kind |-> kind, error |-> error]
NoResult == Result("none", "", Ok)
SdkError(kind, error) == Result("Err", kind, error)

\* ---------------------------------------------------------------- state
VARIABLES
  ctx,              \* the InterceptorContext
  pc,               \* the next step of the driver
  stop_point,       \* StopPoint argument: "None" or "BeforeTransmit"
  sleep_impl,       \* runtime_components.sleep_impl(): "Some", "None", or "unread" until first read
  debug_assertions, \* cfg!(debug_assertions): debug_assert! is compiled in
  i,                \* loop counter of try_op's for loop
  attempts,         \* RequestAttempts stored in the config bag (0: none)
  retry_delay,      \* try_op's retry_delay is Some
  rewind_result,    \* result of the last ctx.rewind call ("" before the first)
  last_decision,    \* last answer of should_attempt_retry ("" before the first)
  retries_granted,  \* Yes and YesAfterDelay answers of should_attempt_retry so far
  opLog,            \* events outside attempts, in order
  attLog,           \* events of the loop iteration in progress, in order
  faults,           \* failing events so far
  transport_calls,  \* connector.call invocations
  attempts_started, \* try_attempt invocations
  checkpoint_writes,\* assignments to ctx.request_checkpoint
  all_failed,       \* hook at which every registered interceptor failed ("" again when a retry starts)
  assert_failed,    \* a debug_assert!/expect of the driver or context failed
  result            \* what the invocation returned ("" while running)

vars ==
  <<ctx, pc, stop_point, sleep_impl, debug_assertions, i, attempts, retry_delay, rewind_result,
    last_decision, retries_granted, opLog, attLog, faults, transport_calls, attempts_started, checkpoint_writes,
    all_failed, assert_failed, result>>

config == <<stop_point, sleep_impl, debug_assertions>>
counters == <<transport_calls, attempts_started, checkpoint_writes, all_failed>>
loopvars == <<i, attempts, retry_delay, rewind_result, last_decision, retries_granted>>

Init ==
  /\ ctx = NewContext
  /\ pc = "apply_client_configuration"
  /\ stop_point \in {"None", "BeforeTransmit"}
  /\ sleep_impl = "unread"
  \* the driver's calls never violate a debug_assert! (assert_failed stays FALSE),
  \* so its runs are the same in both builds
  /\ debug_assertions = TRUE
  /\ i = 0
  /\ attempts = 0
  /\ retry_delay = FALSE
  /\ rewind_result = ""
  /\ last_decision = ""
  /\ retries_granted = 0
  /\ opLog = <<>>
  /\ attLog = <<>>
  /\ faults = 0
  /\ transport_calls = 0
  /\ attempts_started = 0
  /\ checkpoint_writes = 0
  /\ all_failed = ""
  /\ assert_failed = FALSE
  /\ result = NoResult

CanFault == faults < MaxFaults


\* ---------------------------------------------------------------- apply_configuration
\* runtime_plugins.apply_client_configuration(cfg)?
ApplyClientConfiguration ==
  /\ pc = "apply_client_configuration"
  /\ \/ /\ pc' = "read_before_execution_client"
        /\ UNCHANGED <<faults, result>>
     \/ /\ CanFault
        /\ faults' = faults + 1
        /\ result' = SdkError("ConstructionFailure", OtherError("apply_client_configuration"))
        /\ pc' = "done"
  /\ UNCHANGED <<ctx, config, loopvars, opLog, attLog, counters, assert_failed>>

\* continue_on_err!([ctx] => Interceptors::new(<scope>).read_before_execution(..))
ReadBeforeExecution(at, list, next) ==
  /\ pc = at
  /\ \E fails \in FailureSets(list) :
       /\ fails # {} => CanFault
       /\ LET d == Dispatch("read_before_execution", list, fails) IN
          /\ opLog' = opLog \o d.calls
          /\ ctx' = IF IsSome(d.result)
                    THEN fail(ctx, InterceptorError("read_before_execution", Unwrap(d.result)))
                    ELSE ctx
          /\ faults' = IF fails # {} THEN faults + 1 ELSE faults
          /\ all_failed' =
               IF fails # Range(list) THEN ""
               ELSE IF list = ClientInterceptors THEN "read_before_execution (client)"
               ELSE IF all_failed = "read_before_execution (client)" \/ ClientInterceptors = <<>>
               THEN "read_before_execution"
               ELSE ""
  /\ pc' = next
  /\ UNCHANGED <<config, loopvars, attLog, transport_calls, attempts_started,
                 checkpoint_writes, assert_failed, result>>

ReadBeforeExecutionClient ==
  ReadBeforeExecution("read_before_execution_client", ClientInterceptors,
                      "apply_operation_configuration")

ApplyOperationConfigurationHalts ==
  /\ pc = "apply_operation_configuration"
  /\ \/ /\ pc' = "read_before_execution_operation"
        /\ UNCHANGED <<faults, ctx>>
     \/ /\ CanFault
        /\ faults' = faults + 1
        /\ ctx' = fail(ctx, OtherError("apply_operation_configuration"))
        /\ pc' = "modify_before_completion"
  /\ UNCHANGED <<result, config, loopvars, opLog, attLog, counters, assert_failed>>

\* runtime_plugins.apply_operation_configuration(cfg)?
ApplyOperationConfiguration ==
  /\ pc = "apply_operation_configuration"
  /\ \/ /\ pc' = "read_before_execution_operation"
        /\ UNCHANGED <<faults, result>>
     \/ /\ CanFault
        /\ faults' = faults + 1
        /\ result' = SdkError("ConstructionFailure", OtherError("apply_operation_configuration"))
        /\ pc' = "done"
  /\ UNCHANGED <<ctx, config, loopvars, opLog, attLog, counters, assert_failed>>

ReadBeforeExecutionOperation ==
  ReadBeforeExecution("read_before_execution_operation", OperationInterceptors,
                      "build_runtime_components")

BuildRuntimeComponentsAlwaysTryOp ==
  /\ pc = "build_runtime_components"
  /\ \/ /\ pc' = "read_before_serialization"
        /\ UNCHANGED <<faults, result>>
     \/ /\ CanFault
        /\ faults' = faults + 1
        /\ result' = SdkError("ConstructionFailure", OtherError("build_runtime_components"))
        /\ pc' = "done"
  /\ UNCHANGED <<ctx, config, loopvars, opLog, attLog, counters, assert_failed>>

\* RuntimeComponents::builder(..).merge_from(..).merge_from(..).build()? and then
\* invoke_with_stop_point: if !ctx.is_failed() { try_op } finally_op
BuildRuntimeComponents ==
  /\ pc = "build_runtime_components"
  /\ \/ /\ pc' = IF is_failed(ctx) THEN "modify_before_completion"
                 ELSE "read_before_serialization"
        /\ UNCHANGED <<faults, result>>
     \/ /\ CanFault
        /\ faults' = faults + 1
        /\ result' = SdkError("ConstructionFailure", OtherError("build_runtime_components"))
        /\ pc' = "done"
  /\ UNCHANGED <<ctx, config, loopvars, opLog, attLog, counters, assert_failed>>

\* ---------------------------------------------------------------- run_interceptors!
HaltOnErrHooks == Range(PreLoopHooks) \cup Range(AttemptHooks)

InAttempt(h) == h \in Range(AttemptHooks) \cup Range(AttemptFinalizers)

\* hooks whose context gives mutable access to the request
RequestMutators == {"modify_before_retry_loop", "modify_before_signing", "modify_before_transmit"}

HookNextIgnoresStopPoint(h) ==
  CASE h = "read_before_serialization" -> "modify_before_serialization"
    [] h = "modify_before_serialization" -> "serialize"
    [] h = "read_after_serialization" -> "modify_before_retry_loop"
    [] h = "modify_before_retry_loop" -> "should_attempt_initial_request"
    [] h = "read_before_attempt" -> "orchestrate_endpoint"
    [] h = "modify_before_signing" -> "read_before_signing"
    [] h = "read_before_signing" -> "orchestrate_auth"
    [] h = "read_after_signing" -> "modify_before_transmit"
    [] h = "modify_before_transmit" -> "read_before_transmit"
    [] h = "read_before_transmit" -> "transmit"
    [] h = "read_after_transmit" -> "modify_before_deserialization"
    [] h = "modify_before_deserialization" -> "read_before_deserialization"
    [] h = "read_before_deserialization" -> "deserialize"
    [] h = "read_after_deserialization" -> "modify_before_attempt_completion"
    [] h = "modify_before_attempt_completion" -> "read_after_attempt"
    [] h = "read_after_attempt" -> "should_attempt_retry"
    [] h = "modify_before_completion" -> "read_after_execution"
    [] h = "read_after_execution" -> "return"

HookNextSignsBeforeReadBeforeSigning(h) ==
  IF h = "modify_before_signing" THEN "orchestrate_auth"
  ELSE IF h = "read_before_transmit" /\ stop_point = "BeforeTransmit"
  THEN "modify_before_attempt_completion"
  ELSE HookNextIgnoresStopPoint(h)

\* the statement following each run_interceptors! line
HookNext(h) ==
  CASE h = "read_before_serialization" -> "modify_before_serialization"
    [] h = "modify_before_serialization" -> "serialize"
    [] h = "read_after_serialization" -> "modify_before_retry_loop"
    [] h = "modify_before_retry_loop" -> "should_attempt_initial_request"
    [] h = "read_before_attempt" -> "orchestrate_endpoint"
    [] h = "modify_before_signing" -> "read_before_signing"
    [] h = "read_before_signing" -> "orchestrate_auth"
    [] h = "read_after_signing" -> "modify_before_transmit"
    [] h = "modify_before_transmit" -> "read_before_transmit"
    [] h = "read_before_transmit" ->
         IF stop_point = "BeforeTransmit" THEN "modify_before_attempt_completion"
         ELSE "transmit"
    [] h = "read_after_transmit" -> "modify_before_deserialization"
    [] h = "modify_before_deserialization" -> "read_before_deserialization"
    [] h = "read_before_deserialization" -> "deserialize"
    [] h = "read_after_deserialization" -> "modify_before_attempt_completion"
    [] h = "modify_before_attempt_completion" -> "read_after_attempt"
    [] h = "read_after_attempt" -> "should_attempt_retry"
    [] h = "modify_before_completion" -> "read_after_execution"
    [] h = "read_after_execution" -> "return"

HaltTargetAlwaysAttempt(h) == "modify_before_attempt_completion"

HaltTargetAlwaysOperation(h) == "modify_before_completion"

\* where control continues after halt! returns from the enclosing function:
\* try_op is followed by finally_op, try_attempt by finally_attempt
HaltTarget(h) ==
  IF InAttempt(h) THEN "modify_before_attempt_completion" ELSE "modify_before_completion"

OnErrSkipFinalizer(h) ==
  IF h \in HaltOnErrHooks THEN HaltTarget(h)
  ELSE IF h = "modify_before_attempt_completion" THEN "should_attempt_retry"
  ELSE IF h = "modify_before_completion" THEN "return"
  ELSE HookNext(h)

\* halt_on_err returns from the function, continue_on_err goes on with the next statement
OnErr(h) == IF h \in HaltOnErrHooks THEN HaltTarget(h) ELSE HookNext(h)

AddHeader(c, h) ==
  [c EXCEPT !.request = Some([Unwrap(c.request) EXCEPT !.headers = @ \cup {h}])]

\* run_interceptors!(halt_on_err | continue_on_err: hook(ctx, rc, cfg)) in
\* try_op, try_attempt, finally_attempt and finally_op
RunInterceptors(h) ==
  /\ pc = h
  /\ \E fails \in FailureSets(MergedInterceptors) :
     \E mutate \in (IF h \in RequestMutators /\ IsSome(ctx.request) THEN BOOLEAN ELSE {FALSE}) :
       /\ fails # {} => CanFault
       /\ LET d == Dispatch(h, MergedInterceptors, fails)
              c1 == IF mutate THEN AddHeader(ctx, h) ELSE ctx
          IN
          /\ IF InAttempt(h)
             THEN attLog' = attLog \o d.calls /\ UNCHANGED opLog
             ELSE opLog' = opLog \o d.calls /\ UNCHANGED attLog
          /\ IF IsSome(d.result)
             THEN /\ ctx' = fail(c1, InterceptorError(h, Unwrap(d.result)))
                  /\ pc' = OnErr(h)
                  /\ faults' = faults + 1
             ELSE /\ ctx' = c1
                  /\ pc' = HookNext(h)
                  /\ UNCHANGED faults
          /\ all_failed' = IF fails = Range(MergedInterceptors) THEN h ELSE all_failed
  /\ UNCHANGED <<config, loopvars, transport_calls, attempts_started, checkpoint_writes,
                 assert_failed, result>>

RunHook ==
  \E h \in (AllHooks \ {"read_before_execution"}) : RunInterceptors(h)

\* ---------------------------------------------------------------- try_op
\* enter_serialization_phase; take_input; serialize_input; set_request
Serialize ==
  /\ pc = "serialize"
  /\ LET c1 == take_input(enter_serialization_phase(ctx)) IN
     /\ assert_failed' = (assert_failed \/ ~pre_enter_serialization_phase(ctx)
                            \/ IsNone(ctx.input))
     /\ \/ \E r \in SerializedRequests :
             /\ ctx' = set_request(c1, r)
             /\ opLog' = Append(opLog, Ev("serialize_input", 0, TRUE))
             /\ pc' \in {"load_body", "enter_before_transmit"}  \* LoadedRequestBody::Requested or not
             /\ UNCHANGED faults
        \/ /\ CanFault
           /\ ctx' = fail(c1, OtherError("serialize_input"))
           /\ opLog' = Append(opLog, Ev("serialize_input", 0, FALSE))
           /\ pc' = "modify_before_completion"
           /\ faults' = faults + 1
  /\ UNCHANGED <<config, loopvars, attLog, counters, result>>

\* if LoadedRequestBody::Requested: swap the body out, collect it, put the bytes back
LoadBody ==
  /\ pc = "load_body"
  /\ \/ /\ ctx' = [ctx EXCEPT !.request = Some([Unwrap(ctx.request) EXCEPT !.body_clonable = TRUE])]
        /\ pc' = "enter_before_transmit"
        /\ UNCHANGED faults
     \/ /\ CanFault
        /\ ctx' = fail(ctx, OtherError("load_body"))
        /\ pc' = "modify_before_completion"
        /\ faults' = faults + 1
  /\ UNCHANGED <<config, loopvars, opLog, attLog, counters, assert_failed, result>>

\* ctx.enter_before_transmit_phase()
EnterBeforeTransmit ==
  /\ pc = "enter_before_transmit"
  /\ assert_failed' = (assert_failed \/ ~pre_enter_before_transmit_phase(ctx))
  /\ ctx' = enter_before_transmit_phase(ctx)
  /\ checkpoint_writes' = checkpoint_writes + 1
  /\ pc' = "read_after_serialization"
  /\ UNCHANGED <<config, loopvars, opLog, attLog, faults, transport_calls,
                 attempts_started, all_failed, result>>

\* runtime_components.sleep_impl() gives the same answer throughout an invocation
ReadSleepImpl ==
  IF sleep_impl = "unread" THEN sleep_impl' \in {"Some", "None"} ELSE sleep_impl' = sleep_impl

\* retry_strategy().should_attempt_initial_request(..) and the match on its answer
ShouldAttemptInitialRequest ==
  /\ pc = "should_attempt_initial_request"
  /\ \/ /\ pc' = "save_checkpoint"                       \* Ok(Yes)
        /\ opLog' = Append(opLog, Ev("should_attempt_initial_request", 0, TRUE))
        /\ UNCHANGED <<ctx, faults, sleep_impl>>
     \/ /\ CanFault                                      \* Ok(No)
        /\ ctx' = fail(ctx, OtherError("initial_request_refused"))
        /\ opLog' = Append(opLog, Ev("should_attempt_initial_request", 0, FALSE))
        /\ pc' = "modify_before_completion"
        /\ faults' = faults + 1
        /\ UNCHANGED sleep_impl
     \/ /\ CanFault                                      \* Err(err)
        /\ ctx' = fail(ctx, OtherError("should_attempt_initial_request"))
        /\ opLog' = Append(opLog, Ev("should_attempt_initial_request", 0, FALSE))
        /\ pc' = "modify_before_completion"
        /\ faults' = faults + 1
        /\ UNCHANGED sleep_impl
     \/ /\ opLog' = Append(opLog, Ev("should_attempt_initial_request", 0, TRUE))
        /\ ReadSleepImpl                                 \* Ok(YesAfterDelay(delay))
        /\ IF sleep_impl' = "Some"
           THEN ctx' = ctx /\ pc' = "initial_delay"
           ELSE ctx' = fail(ctx, OtherError("no_sleep_impl")) /\ pc' = "modify_before_completion"
        /\ UNCHANGED faults
  /\ UNCHANGED <<stop_point, debug_assertions, loopvars, attLog, counters, assert_failed, result>>

\* sleep_impl.sleep(delay).await
InitialDelay ==
  /\ pc = "initial_delay"
  /\ opLog' = Append(opLog, Ev("sleep", 0, TRUE))
  /\ pc' = "save_checkpoint"
  /\ UNCHANGED <<ctx, config, loopvars, attLog, faults, counters, assert_failed, result>>

\* ctx.save_checkpoint(); let mut retry_delay = None; for i in 1u32..
SaveCheckpoint ==
  /\ pc = "save_checkpoint"
  /\ ctx' = save_checkpoint(ctx)
  /\ checkpoint_writes' = checkpoint_writes + 1
  /\ opLog' = Append(opLog, Ev("save_checkpoint", 0, IsSome(save_checkpoint(ctx).request_checkpoint)))
  /\ i' = 1
  /\ retry_delay' = FALSE
  /\ pc' = "rewind"
  /\ UNCHANGED <<config, attempts, rewind_result, last_decision, retries_granted, attLog, faults,
                 transport_calls, attempts_started, all_failed, assert_failed, result>>

LoopHeadImpossibleFails ==
  /\ pc = "rewind"
  /\ LET r == rewind(ctx) IN
     /\ rewind_result' = r.result
     /\ IF r.result = "Impossible"
        THEN /\ ctx' = fail(r.ctx, OtherError("rewind_impossible"))
             /\ pc' = "modify_before_completion"
             /\ UNCHANGED <<attempts, attLog, attempts_started, all_failed>>
        ELSE /\ ctx' = r.ctx
             /\ attempts' = i
             /\ all_failed' = IF i > 1 THEN "" ELSE all_failed
             /\ attLog' = <<Ev("rewind", 0, TRUE), Ev("store_attempts", i, TRUE)>>
             /\ pc' = IF retry_delay THEN "retry_delay_wait" ELSE "read_before_attempt"
             /\ attempts_started' = IF retry_delay THEN attempts_started
                                    ELSE attempts_started + 1
  /\ UNCHANGED <<config, i, retry_delay, last_decision, retries_granted, opLog, faults,
                 transport_calls, checkpoint_writes, assert_failed, result>>

LoopHeadStoresPreviousAttempt ==
  /\ pc = "rewind"
  /\ LET r == rewind(ctx) IN
     /\ ctx' = r.ctx
     /\ rewind_result' = r.result
     /\ IF r.result = "Impossible"
        THEN /\ pc' = "modify_before_completion"
             /\ UNCHANGED <<attempts, attLog, attempts_started, all_failed>>
        ELSE /\ attempts' = i - 1
             /\ all_failed' = IF i > 1 THEN "" ELSE all_failed
             /\ attLog' = <<Ev("rewind", 0, TRUE), Ev("store_attempts", i - 1, TRUE)>>
             /\ pc' = IF retry_delay THEN "retry_delay_wait" ELSE "read_before_attempt"
             /\ attempts_started' = IF retry_delay THEN attempts_started
                                    ELSE attempts_started + 1
  /\ UNCHANGED <<config, i, retry_delay, last_decision, retries_granted, opLog, faults,
                 transport_calls, checkpoint_writes, assert_failed, result>>

LoopHeadStoresAttemptsFirst ==
  /\ pc = "rewind"
  /\ LET r == rewind(ctx) IN
     /\ ctx' = r.ctx
     /\ rewind_result' = r.result
     /\ attempts' = i
     /\ IF r.result = "Impossible"
        THEN /\ pc' = "modify_before_completion"
             /\ UNCHANGED <<attLog, attempts_started, all_failed>>
        ELSE /\ all_failed' = IF i > 1 THEN "" ELSE all_failed
             /\ attLog' = <<Ev("rewind", 0, TRUE), Ev("store_attempts", i, TRUE)>>
             /\ pc' = IF retry_delay THEN "retry_delay_wait" ELSE "read_before_attempt"
             /\ attempts_started' = IF retry_delay THEN attempts_started
                                    ELSE attempts_started + 1
  /\ UNCHANGED <<config, i, retry_delay, last_decision, retries_granted, opLog, faults,
                 transport_calls, checkpoint_writes, assert_failed, result>>

\* top of the loop body: ctx.rewind(cfg), break on Impossible, store RequestAttempts(i)
LoopHead ==
  /\ pc = "rewind"
  /\ LET r == rewind(ctx) IN
     /\ ctx' = r.ctx
     /\ rewind_result' = r.result
     /\ IF r.result = "Impossible"
        THEN /\ pc' = "modify_before_completion"
             /\ UNCHANGED <<attempts, attLog, attempts_started, all_failed>>
        ELSE /\ attempts' = i
             /\ all_failed' = IF i > 1 THEN "" ELSE all_failed
             /\ attLog' = <<Ev("rewind", 0, TRUE), Ev("store_attempts", i, TRUE)>>
             /\ pc' = IF retry_delay THEN "retry_delay_wait" ELSE "read_before_attempt"
             /\ attempts_started' = IF retry_delay THEN attempts_started
                                    ELSE attempts_started + 1
  /\ UNCHANGED <<config, i, retry_delay, last_decision, retries_granted, opLog, faults, transport_calls,
                 checkpoint_writes, assert_failed, result>>

\* if let Some((delay, sleep)) = retry_delay.take() { sleep.await }
RetryDelayWait ==
  /\ pc = "retry_delay_wait"
  /\ retry_delay' = FALSE
  /\ attLog' = Append(attLog, Ev("sleep", 0, TRUE))
  /\ attempts_started' = attempts_started + 1
  /\ pc' = "read_before_attempt"
  /\ UNCHANGED <<ctx, config, i, attempts, rewind_result, last_decision, retries_granted, opLog, faults,
                 transport_calls, checkpoint_writes, all_failed, assert_failed, result>>

ShouldAttemptRetryKeepsOutcome ==
  /\ pc = "should_attempt_retry"
  /\ attLog' = <<>>
  /\ \/ /\ i < MaxAttempts                               \* Ok(Yes): continue
        /\ i' = i + 1
        /\ pc' = "rewind"
        /\ last_decision' = "Yes"
        /\ retries_granted' = retries_granted + 1
        /\ UNCHANGED <<ctx, retry_delay, faults, sleep_impl>>
     \/ /\ pc' = "modify_before_completion"              \* Ok(No): break
        /\ last_decision' = "No"
        /\ UNCHANGED <<ctx, i, retry_delay, retries_granted, faults, sleep_impl>>
     \/ /\ i < MaxAttempts                               \* Ok(YesAfterDelay(delay))
        /\ ReadSleepImpl
        /\ last_decision' = "YesAfterDelay"
        /\ retries_granted' = retries_granted + 1
        /\ IF sleep_impl' = "Some"
           THEN /\ retry_delay' = TRUE
                /\ i' = i + 1
                /\ pc' = "rewind"
                /\ ctx' = ctx
           ELSE /\ ctx' = fail(ctx, OtherError("no_sleep_impl"))
                /\ pc' = "modify_before_completion"
                /\ UNCHANGED <<i, retry_delay>>
        /\ UNCHANGED faults
     \/ /\ CanFault                                      \* Err(err): halt
        /\ ctx' = ctx
        /\ pc' = "modify_before_completion"
        /\ last_decision' = "Err"
        /\ faults' = faults + 1
        /\ UNCHANGED <<i, retry_delay, retries_granted, sleep_impl>>
  /\ UNCHANGED <<stop_point, debug_assertions, attempts, rewind_result, opLog, counters,
                 assert_failed, result>>

ShouldAttemptRetryContinuesOnNo ==
  /\ pc = "should_attempt_retry"
  /\ attLog' = <<>>
  /\ \/ /\ i < MaxAttempts                               \* Ok(Yes): continue
        /\ i' = i + 1
        /\ pc' = "rewind"
        /\ last_decision' = "Yes"
        /\ retries_granted' = retries_granted + 1
        /\ UNCHANGED <<ctx, retry_delay, faults, sleep_impl>>
     \/ /\ pc' = "rewind"
        /\ last_decision' = "No"
        /\ UNCHANGED <<ctx, i, retry_delay, retries_granted, faults, sleep_impl>>
     \/ /\ i < MaxAttempts                               \* Ok(YesAfterDelay(delay))
        /\ ReadSleepImpl
        /\ last_decision' = "YesAfterDelay"
        /\ retries_granted' = retries_granted + 1
        /\ IF sleep_impl' = "Some"
           THEN /\ retry_delay' = TRUE
                /\ i' = i + 1
                /\ pc' = "rewind"
                /\ ctx' = ctx
           ELSE /\ ctx' = fail(ctx, OtherError("no_sleep_impl"))
                /\ pc' = "modify_before_completion"
                /\ UNCHANGED <<i, retry_delay>>
        /\ UNCHANGED faults
     \/ /\ CanFault                                      \* Err(err): halt
        /\ ctx' = fail(ctx, OtherError("should_attempt_retry"))
        /\ pc' = "modify_before_completion"
        /\ last_decision' = "Err"
        /\ faults' = faults + 1
        /\ UNCHANGED <<i, retry_delay, retries_granted, sleep_impl>>
  /\ UNCHANGED <<stop_point, debug_assertions, attempts, rewind_result, opLog, counters,
                 assert_failed, result>>

\* retry_strategy().should_attempt_retry(ctx, ..) and the match on its answer;
\* the loop iteration ends here
ShouldAttemptRetry ==
  /\ pc = "should_attempt_retry"
  /\ attLog' = <<>>
  /\ \/ /\ i < MaxAttempts                               \* Ok(Yes): continue
        /\ i' = i + 1
        /\ pc' = "rewind"
        /\ last_decision' = "Yes"
        /\ retries_granted' = retries_granted + 1
        /\ UNCHANGED <<ctx, retry_delay, faults, sleep_impl>>
     \/ /\ pc' = "modify_before_completion"              \* Ok(No): break
        /\ last_decision' = "No"
        /\ UNCHANGED <<ctx, i, retry_delay, retries_granted, faults, sleep_impl>>
     \/ /\ i < MaxAttempts                               \* Ok(YesAfterDelay(delay))
        /\ ReadSleepImpl
        /\ last_decision' = "YesAfterDelay"
        /\ retries_granted' = retries_granted + 1
        /\ IF sleep_impl' = "Some"
           THEN /\ retry_delay' = TRUE
                /\ i' = i + 1
                /\ pc' = "rewind"
                /\ ctx' = ctx
           ELSE /\ ctx' = fail(ctx, OtherError("no_sleep_impl"))
                /\ pc' = "modify_before_completion"
                /\ UNCHANGED <<i, retry_delay>>
        /\ UNCHANGED faults
     \/ /\ CanFault                                      \* Err(err): halt
        /\ ctx' = fail(ctx, OtherError("should_attempt_retry"))
        /\ pc' = "modify_before_completion"
        /\ last_decision' = "Err"
        /\ faults' = faults + 1
        /\ UNCHANGED <<i, retry_delay, retries_granted, sleep_impl>>
  /\ UNCHANGED <<stop_point, debug_assertions, attempts, rewind_result, opLog, counters,
                 assert_failed, result>>

\* ---------------------------------------------------------------- try_attempt
SetUri(c, u) == [c EXCEPT !.request = Some([Unwrap(c.request) EXCEPT !.uri = u])]

AttemptHaltLeavesLoop(c, error) ==
  /\ CanFault
  /\ ctx' = fail(c, error)
  /\ pc' = "modify_before_completion"
  /\ faults' = faults + 1

\* halt_on_err!([ctx] => ..) in try_attempt: record the error and return to try_op,
\* which goes on with finally_attempt
AttemptHalt(c, error) ==
  /\ CanFault
  /\ ctx' = fail(c, error)
  /\ pc' = "modify_before_attempt_completion"
  /\ faults' = faults + 1

\* halt_on_err!(orchestrate_endpoint(ctx, rc, cfg).await): the resolved endpoint is
\* applied to the request
OrchestrateEndpoint ==
  /\ pc = "orchestrate_endpoint"
  /\ \/ /\ ctx' = IF IsSome(ctx.request) THEN SetUri(ctx, "https://endpoint/") ELSE ctx
        /\ attLog' = Append(attLog, Ev("orchestrate_endpoint", 0, TRUE))
        /\ pc' = "modify_before_signing"
        /\ UNCHANGED faults
     \/ /\ AttemptHalt(ctx, OtherError("orchestrate_endpoint"))
        /\ attLog' = Append(attLog, Ev("orchestrate_endpoint", 0, FALSE))
  /\ UNCHANGED <<config, loopvars, opLog, counters, assert_failed, result>>

OrchestrateAuthContinuesOnErr ==
  /\ pc = "orchestrate_auth"
  /\ \/ /\ ctx' = IF IsSome(ctx.request) THEN AddHeader(ctx, "authorization") ELSE ctx
        /\ attLog' = Append(attLog, Ev("orchestrate_auth", 0, TRUE))
        /\ pc' = "read_after_signing"
        /\ UNCHANGED faults
     \/ /\ CanFault
        /\ ctx' = fail(ctx, OtherError("orchestrate_auth"))
        /\ faults' = faults + 1
        /\ pc' = "read_after_signing"
        /\ attLog' = Append(attLog, Ev("orchestrate_auth", 0, FALSE))
  /\ UNCHANGED <<config, loopvars, opLog, counters, assert_failed, result>>

\* halt_on_err!(orchestrate_auth(ctx, rc, cfg).await): the signer signs the request
OrchestrateAuth ==
  /\ pc = "orchestrate_auth"
  /\ \/ /\ ctx' = IF IsSome(ctx.request) THEN AddHeader(ctx, "authorization") ELSE ctx
        /\ attLog' = Append(attLog, Ev("orchestrate_auth", 0, TRUE))
        /\ pc' = "read_after_signing"
        /\ UNCHANGED faults
     \/ /\ AttemptHalt(ctx, OtherError("orchestrate_auth"))
        /\ attLog' = Append(attLog, Ev("orchestrate_auth", 0, FALSE))
  /\ UNCHANGED <<config, loopvars, opLog, counters, assert_failed, result>>

\* ctx.enter_transmit_phase(); ctx.take_request().expect(..); connector lookup;
\* connector.call(request)
Transmit ==
  /\ pc = "transmit"
  /\ assert_failed' = (assert_failed \/ ~pre_enter_transmit_phase(ctx) \/ IsNone(ctx.request))
  /\ LET c1 == take_request(enter_transmit_phase(ctx)) IN
     \/ /\ ctx' = c1
        /\ transport_calls' = transport_calls + 1
        /\ attLog' = Append(attLog, Ev("connector_call", 0, TRUE))
        /\ pc' = "await_response"
        /\ UNCHANGED faults
     \/ /\ AttemptHalt(c1, OtherError("connector_required"))   \* rc.connector() is None
        /\ UNCHANGED <<transport_calls, attLog>>
  /\ UNCHANGED <<config, loopvars, opLog, attempts_started, checkpoint_writes,
                 all_failed, result>>

\* connector.call(request).await and its map_err; set_response;
\* enter_before_deserialization_phase
AwaitResponse ==
  /\ pc = "await_response"
  /\ \/ /\ LET c1 == set_response(ctx, "response") IN
           /\ assert_failed' = (assert_failed \/ ~pre_enter_before_deserialization_phase(c1))
           /\ ctx' = enter_before_deserialization_phase(c1)
        /\ pc' = "read_after_transmit"
        /\ UNCHANGED faults
     \/ /\ AttemptHalt(ctx, Err("connector", "connector_call", 0))  \* typed ConnectorError
        /\ UNCHANGED assert_failed
     \/ /\ AttemptHalt(ctx, OtherError("connector_call"))           \* any other error
        /\ UNCHANGED assert_failed
  /\ UNCHANGED <<config, loopvars, opLog, attLog, counters, result>>

\* what a deserializer may return
DeserializedResults == {Ok, Err("operation", "deserialize", 0), Err("other", "deserialize", 0)}

\* ctx.set_output_or_error(output_or_error): the outcome of deserialization,
\* Ok or Err, is stored on the context without halting
AfterDeserialize(c, o) ==
  /\ ctx' = set_output_or_error(c, o)
  /\ pc' = "enter_after_deserialization"
  /\ faults' = IF o.tag = "Err" THEN faults + 1 ELSE faults

\* ctx.enter_deserialization_phase(); deserialize_streaming(response)
Deserialize ==
  /\ pc = "deserialize"
  /\ assert_failed' = (assert_failed \/ ~pre_enter_deserialization_phase(ctx)
                         \/ IsNone(ctx.response))
  /\ LET c1 == enter_deserialization_phase(ctx) IN
     \/ \E o \in DeserializedResults :                   \* Some(output_or_error)
          /\ o.tag = "Err" => CanFault
          /\ attLog' = Append(attLog, Ev("deserialize_streaming", 0, TRUE))
          /\ AfterDeserialize(c1, o)
     \/ /\ ctx' = c1                                     \* None: streaming declined
        /\ attLog' = Append(attLog, Ev("deserialize_streaming", 0, FALSE))
        /\ pc' = "read_body"
        /\ UNCHANGED faults
  /\ UNCHANGED <<config, loopvars, opLog, counters, result>>

ReadBodyParsesAnyway ==
  /\ pc = "read_body"
  /\ \/ \E o \in DeserializedResults :
          /\ o.tag = "Err" => CanFault
          /\ attLog' = attLog \o <<Ev("read_body", 0, TRUE), Ev("deserialize_nonstreaming", 0, TRUE)>>
          /\ AfterDeserialize(ctx, o)
     \/ /\ CanFault
        /\ attLog' = attLog \o <<Ev("read_body", 0, FALSE), Ev("deserialize_nonstreaming", 0, TRUE)>>
        /\ AfterDeserialize(ctx, Err("other", "deserialize", 0))
  /\ UNCHANGED <<config, loopvars, opLog, counters, assert_failed, result>>

\* read_body(response).await.map_err(response).and_then(deserialize_nonstreaming)
ReadBody ==
  /\ pc = "read_body"
  /\ \/ \E o \in DeserializedResults :
          /\ o.tag = "Err" => CanFault
          /\ attLog' = attLog \o <<Ev("read_body", 0, TRUE), Ev("deserialize_nonstreaming", 0, TRUE)>>
          /\ AfterDeserialize(ctx, o)
     \/ /\ CanFault
        /\ attLog' = Append(attLog, Ev("read_body", 0, FALSE))
        /\ AfterDeserialize(ctx, Err("response", "read_body", 0))
  /\ UNCHANGED <<config, loopvars, opLog, counters, assert_failed, result>>

\* ctx.enter_after_deserialization_phase()
EnterAfterDeserialization ==
  /\ pc = "enter_after_deserialization"
  /\ assert_failed' = (assert_failed \/ ~pre_enter_after_deserialization_phase(ctx))
  /\ ctx' = enter_after_deserialization_phase(ctx)
  /\ pc' = "read_after_deserialization"
  /\ UNCHANGED <<config, loopvars, opLog, attLog, faults, counters, result>>

\* ---------------------------------------------------------------- timeouts
AttemptSuspensionPointsWithBackoff ==
  {"retry_delay_wait", "orchestrate_endpoint", "orchestrate_auth", "await_response", "read_body"}

\* the awaits inside the future that the attempt timeout wraps
AttemptSuspensionPoints == {"orchestrate_endpoint", "orchestrate_auth", "await_response", "read_body"}

OperationSuspensionPoints ==
  AttemptSuspensionPoints \cup {"load_body", "initial_delay", "retry_delay_wait"}

AttemptTimeoutAborts ==
  /\ pc \in AttemptSuspensionPoints
  /\ CanFault
  /\ faults' = faults + 1
  /\ ctx' = fail(ctx, Err("timeout", "attempt", 0))
  /\ attLog' = Append(attLog, Ev("attempt_timeout", 0, FALSE))
  /\ pc' = "modify_before_completion"
  /\ UNCHANGED <<config, loopvars, opLog, counters, assert_failed, result>>

AttemptTimeoutRetries ==
  /\ pc \in AttemptSuspensionPoints
  /\ CanFault
  /\ i < MaxAttempts
  /\ faults' = faults + 1
  /\ ctx' = fail(ctx, Err("timeout", "attempt", 0))
  /\ attLog' = <<>>
  /\ i' = i + 1
  /\ pc' = "rewind"
  /\ UNCHANGED <<config, attempts, retry_delay, rewind_result, last_decision, retries_granted,
                 opLog, counters, assert_failed, result>>

AttemptTimeoutDropsError ==
  /\ pc \in AttemptSuspensionPoints
  /\ CanFault
  /\ faults' = faults + 1
  /\ ctx' = ctx
  /\ attLog' = Append(attLog, Ev("attempt_timeout", 0, FALSE))
  /\ pc' = "should_attempt_retry"
  /\ UNCHANGED <<config, loopvars, opLog, counters, assert_failed, result>>

\* .maybe_timeout(attempt_timeout_config).await.map_err(timeout);
\* continue_on_err!([ctx] => maybe_timeout): the attempt future is dropped where it
\* is suspended and the loop goes on to should_attempt_retry
AttemptTimeout ==
  /\ pc \in AttemptSuspensionPoints
  /\ CanFault
  /\ faults' = faults + 1
  /\ ctx' = fail(ctx, Err("timeout", "attempt", 0))
  /\ attLog' = Append(attLog, Ev("attempt_timeout", 0, FALSE))
  /\ pc' = "should_attempt_retry"
  /\ UNCHANGED <<config, loopvars, opLog, counters, assert_failed, result>>

\* .maybe_timeout(operation_timeout_config).await in invoke_with_stop_point: the
\* operation future is dropped and the timeout error is returned
OperationTimeout ==
  /\ pc \in OperationSuspensionPoints
  /\ CanFault
  /\ faults' = faults + 1
  /\ result' = SdkError("TimeoutError", Err("timeout", "operation", 0))
  /\ opLog' = Append(opLog, Ev("operation_timeout", 0, FALSE))
  /\ pc' = "done"
  /\ UNCHANGED <<ctx, config, loopvars, attLog, counters, assert_failed>>

\* ---------------------------------------------------------------- finalize
\* OrchestratorError::into_sdk_error(error, &phase, response)
into_sdk_error(error, phase, response) ==
  CASE error.kind \in {"interceptor", "other"} ->
         IF phase \in {"BeforeSerialization", "Serialization"}
         THEN SdkError("ConstructionFailure", error)
         ELSE IF phase \in {"BeforeTransmit", "Transmit"} /\ IsNone(response)
         THEN SdkError("DispatchFailure", error)
         ELSE SdkError("ResponseError", error)
    [] error.kind = "operation" -> SdkError("ServiceError", error)
    [] error.kind = "connector" -> SdkError("DispatchFailure", error)
    [] error.kind = "timeout" -> SdkError("TimeoutError", error)
    [] error.kind = "response" -> SdkError("ResponseError", error)

finalize_ignores_phase(c) ==
  IF IsNone(c.output_or_error) THEN Result("panic", "", Ok)
  ELSE IF Unwrap(c.output_or_error).tag = "Ok" THEN Result("Ok", "", Ok)
  ELSE into_sdk_error(Unwrap(c.output_or_error), "BeforeSerialization", c.response)

\* InterceptorContext::finalize
finalize(c) ==
  IF IsNone(c.output_or_error) THEN Result("panic", "", Ok)
  ELSE IF Unwrap(c.output_or_error).tag = "Ok" THEN Result("Ok", "", Ok)
  ELSE into_sdk_error(Unwrap(c.output_or_error), c.phase, c.response)

ReturnFinalizesAlways ==
  /\ pc = "return"
  /\ result' = finalize(ctx)
  /\ assert_failed' = (assert_failed \/ IsNone(ctx.output_or_error))
  /\ pc' = "done"
  /\ UNCHANGED <<ctx, config, loopvars, opLog, attLog, faults, counters>>

\* invoke_with_stop_point returns Ok(ctx); invoke (StopPoint::None) finalizes it
Return ==
  /\ pc = "return"
  /\ result' = IF stop_point = "None" THEN finalize(ctx) ELSE Result("Ctx", "", Ok)
  /\ assert_failed' = (assert_failed \/ (stop_point = "None" /\ IsNone(ctx.output_or_error)))
  /\ pc' = "done"
  /\ UNCHANGED <<ctx, config, loopvars, opLog, attLog, faults, counters>>

\* ---------------------------------------------------------------- specification
Next ==
  \/ ApplyClientConfiguration
  \/ ReadBeforeExecutionClient
  \/ ApplyOperationConfiguration
  \/ ReadBeforeExecutionOperation
  \/ BuildRuntimeComponents
  \/ RunHook
  \/ Serialize
  \/ LoadBody
  \/ EnterBeforeTransmit
  \/ ShouldAttemptInitialRequest
  \/ InitialDelay
  \/ SaveCheckpoint
  \/ LoopHead
  \/ RetryDelayWait
  \/ ShouldAttemptRetry
  \/ OrchestrateEndpoint
  \/ OrchestrateAuth
  \/ Transmit
  \/ AwaitResponse
  \/ Deserialize
  \/ ReadBody
  \/ EnterAfterDeserialization
  \/ AttemptTimeout
  \/ OperationTimeout
  \/ Return

Spec == Init /\ [][Next]_vars

\* every collaborator call and every delay eventually completes, and the driver
\* goes on to its next statement
LiveSpec == Init /\ [][Next]_vars /\ WF_vars(Next)

TypeOK ==
  /\ ctx.phase \in Range(Phases)
  /\ i \in 0..(MaxAttempts + 1)
  /\ faults \in 0..MaxFaults
  /\ attempts \in 0..(MaxAttempts + 1)

\* ---------------------------------------------------------------- context API
\* A second specification: a caller other than the driver calls the phase and data
\* methods of a fresh InterceptorContext in an order of its choice.
\* number of calls made after leaving the order of test_success_transitions
MaxStray == 2

\* the calls of test_success_transitions that change the context, in order
LegalTrace ==
  <<"enter_serialization_phase", "take_input", "set_request",
    "enter_before_transmit_phase", "enter_transmit_phase", "take_request",
    "set_response", "enter_before_deserialization_phase",
    "enter_deserialization_phase", "set_output_or_error",
    "enter_after_deserialization_phase">>

Names(log) == [k \in DOMAIN log |-> log[k].name]

IsPrefix(s, t) == Len(s) <= Len(t) /\ s = SubSeq(t, 1, Len(s))

\* length of the longest prefix of the calls made that follows LegalTrace
LegalPrefixLen(s) ==
  CHOOSE n \in 0..Len(s) :
    /\ IsPrefix(SubSeq(s, 1, n), LegalTrace)
    /\ \A m \in (n + 1)..Len(s) : ~IsPrefix(SubSeq(s, 1, m), LegalTrace)

\* the debug_assert! conditions of method m
Precondition(m, c) ==
  CASE m = "enter_serialization_phase" -> pre_enter_serialization_phase(c)
    [] m = "enter_before_transmit_phase" -> pre_enter_before_transmit_phase(c)
    [] m = "enter_transmit_phase" -> pre_enter_transmit_phase(c)
    [] m = "enter_before_deserialization_phase" -> pre_enter_before_deserialization_phase(c)
    [] m = "enter_deserialization_phase" -> pre_enter_deserialization_phase(c)
    [] m = "enter_after_deserialization_phase" -> pre_enter_after_deserialization_phase(c)
    [] OTHER -> TRUE

\* checks that panic in every build: enter_before_transmit_phase's
\* self.request().expect("checked above")
Expectation(m, c) ==
  m = "enter_before_transmit_phase" => IsSome(c.request)

\* the effect of method m when it does not panic
Apply(m, c) ==
  CASE m = "enter_serialization_phase" -> enter_serialization_phase(c)
    [] m = "take_input" -> take_input(c)
    [] m = "set_request" -> set_request(c, Request("GET", "/", {}, "HTTP/1.1", TRUE))
    [] m = "enter_before_transmit_phase" -> enter_before_transmit_phase(c)
    [] m = "enter_transmit_phase" -> enter_transmit_phase(c)
    [] m = "take_request" -> take_request(c)
    [] m = "set_response" -> set_response(c, "response")
    [] m = "enter_before_deserialization_phase" -> enter_before_deserialization_phase(c)
    [] m = "enter_deserialization_phase" -> enter_deserialization_phase(c)
    [] m = "set_output_or_error" -> set_output_or_error(c, Ok)
    [] m = "enter_after_deserialization_phase" -> enter_after_deserialization_phase(c)

\* InterceptorContext::new(input), in either build
CtxInit ==
  /\ ctx = NewContext
  /\ pc = "ctx_api"
  /\ debug_assertions \in BOOLEAN
  /\ stop_point = "None"
  /\ sleep_impl = "unread"
  /\ i = 0
  /\ attempts = 0
  /\ retry_delay = FALSE
  /\ rewind_result = ""
  /\ last_decision = ""
  /\ retries_granted = 0
  /\ opLog = <<>>
  /\ attLog = <<>>
  /\ faults = 0
  /\ transport_calls = 0
  /\ attempts_started = 0
  /\ checkpoint_writes = 0
  /\ all_failed = ""
  /\ assert_failed = FALSE
  /\ result = NoResult

\* one call of a context method: a violated debug_assert! panics where debug
\* assertions are compiled in, a failed expect panics everywhere, and otherwise
\* the method takes effect
CtxCall(m) ==
  /\ pc = "ctx_api"
  /\ Len(opLog) - LegalPrefixLen(Names(opLog)) < MaxStray
  /\ LET violated == ~Precondition(m, ctx)
         rejected == (debug_assertions /\ violated) \/ ~Expectation(m, ctx)
     IN
     /\ opLog' = Append(opLog, Ev(m, 0, ~rejected))
     /\ assert_failed' = (assert_failed \/ violated)
     /\ IF rejected
        THEN pc' = "panicked" /\ ctx' = ctx
        ELSE pc' = pc /\ ctx' = Apply(m, ctx)
  /\ UNCHANGED <<config, loopvars, attLog, faults, counters, result>>

CtxNext == \E m \in Range(LegalTrace) : CtxCall(m)

CtxSpec == CtxInit /\ [][CtxNext]_vars

\* ---------------------------------------------------------------- log helpers
HookRuns(log, h) == SelectSeq(log, LAMBDA e : e.name = h)

Bys(log) == [k \in DOMAIN log |-> log[k].by]

\* every registered interceptor was called once at hook h, in registration order
RanOnce(log, h) == Bys(HookRuns(log, h)) = MergedInterceptors

FailedAt(log, H) == \E k \in DOMAIN log : log[k].name \in H /\ ~log[k].ok

\* after a failure at a hook of H the log holds only the rest of that hook point
\* and hooks of F
AfterFailureOnly(log, H, F) ==
  \A k \in DOMAIN log :
    (log[k].name \in H /\ ~log[k].ok) =>
      \A j \in (k + 1)..Len(log) : log[j].name \in ({log[k].name} \cup Range(F))

\* the two hooks of a finalizer group ran once each, the first before the second
GroupRanOnce(log, group) ==
  LET part == SelectSeq(log, LAMBDA e : e.name \in Range(group)) IN
  [k \in DOMAIN part |-> part[k].name] =
     [k \in 1..(2 * Len(MergedInterceptors)) |->
        IF k <= Len(MergedInterceptors) THEN group[1] ELSE group[2]]
  /\ RanOnce(log, group[1])
  /\ RanOnce(log, group[2])

LastInterceptor == MergedInterceptors[Len(MergedInterceptors)]

\* method, target and headers of a request
MethodTargetHeaders(r) == <<r.method, r.uri, r.headers>>

\* no delay was awaited before the loop: should_attempt_initial_request said Yes
NoInitialDelay == \A k \in DOMAIN opLog : opLog[k].name # "sleep"

\* the events of the log that failed
Failures(log) == SelectSeq(log, LAMBDA e : ~e.ok)

\* apply_configuration returned Err and invoke_with_stop_point returned it at once
ConfigurationFailed ==
  /\ result.tag = "Err"
  /\ result.error.source \in
       {"apply_client_configuration", "apply_operation_configuration", "build_runtime_components"}

\* the part of the log after the last event named h
AfterLast(log, h) ==
  LET last == CHOOSE k \in DOMAIN log :
                log[k].name = h /\ \A j \in (k + 1)..Len(log) : log[j].name # h
  IN SubSeq(log, last + 1, Len(log))

\* every interceptor ran at hook h of the log without failing
RanOk(log, h) == RanOnce(log, h) /\ \A k \in DOMAIN log : log[k].name = h => log[k].ok

\* the last failed event of a log that has one
LastFailure(log) == Failures(log)[Len(Failures(log))]

\* ---------------------------------------------------------------- claims
\* C1: when a hook from read_before_execution through modify_before_retry_loop fails,
\* nothing but the operation finalizers (modify_before_completion, then
\* read_after_execution) runs afterwards: no attempt starts, no transport call is
\* made, no attempt finalizer hook runs, and the finalizer group has run once by the
\* time the driver returns.
C1_PreLoopFailureJumpsToOperationFinalizers ==
  FailedAt(opLog, Range(PreLoopHooks)) =>
    /\ attempts_started = 0
    /\ transport_calls = 0
    /\ i = 0
    /\ attLog = <<>>
    /\ AfterFailureOnly(opLog, Range(PreLoopHooks), OperationFinalizers)
    /\ pc \in {"apply_operation_configuration", "read_before_execution_operation",
               "build_runtime_components", "modify_before_completion",
               "read_after_execution", "return", "done"}
    /\ pc = "return" => GroupRanOnce(opLog, OperationFinalizers)

C1_Witness ==
  /\ pc = "return"
  /\ FailedAt(opLog, {"modify_before_retry_loop"})
  /\ GroupRanOnce(opLog, OperationFinalizers)

\* C2: when an attempt-scope hook (read_before_attempt .. read_after_deserialization)
\* fails, the rest of the attempt's main pipeline is skipped, the attempt finalizers
\* run next, and the retry strategy is consulted only once both have run.
C2_AttemptFailureJumpsToAttemptFinalizers ==
  FailedAt(attLog, Range(AttemptHooks)) =>
    /\ AfterFailureOnly(attLog, Range(AttemptHooks), AttemptFinalizers)
    /\ pc \in {"modify_before_attempt_completion", "read_after_attempt", "should_attempt_retry"}
    /\ pc = "should_attempt_retry" => GroupRanOnce(attLog, AttemptFinalizers)

C2_Witness ==
  /\ pc = "should_attempt_retry"
  /\ FailedAt(attLog, {"read_after_transmit"})
  /\ GroupRanOnce(attLog, AttemptFinalizers)

\* C3: a failure in modify_before_attempt_completion does not keep read_after_attempt
\* from running in the same attempt, and a failure in modify_before_completion does
\* not keep read_after_execution from running.
C3_FinalizersContinueOnError ==
  /\ FailedAt(attLog, {"modify_before_attempt_completion"}) =>
       /\ pc \in {"read_after_attempt", "should_attempt_retry"}
       /\ pc = "should_attempt_retry" => RanOnce(attLog, "read_after_attempt")
  /\ FailedAt(opLog, {"modify_before_completion"}) =>
       /\ pc \in {"read_after_execution", "return", "done"}
       /\ pc \in {"return", "done"} => RanOnce(opLog, "read_after_execution")

C3_Witness ==
  /\ pc = "return"
  /\ FailedAt(opLog, {"modify_before_completion"})
  /\ RanOnce(opLog, "read_after_execution")

C5_LastRegisteredErrorWins ==
  /\ all_failed \in AllHooks =>
       LET log == IF InAttempt(all_failed) THEN attLog ELSE opLog IN
       HookRuns(log, all_failed) # <<>> => RanOnce(log, all_failed)
  /\ ( /\ pc = "done"
       /\ stop_point = "None"
       /\ all_failed \in AllHooks
       /\ faults = (IF all_failed = "read_before_execution" /\ NumClient > 0 THEN 2 ELSE 1)
       /\ i <= 1
       /\ last_decision \in {"", "No"} )
     => /\ result.tag = "Err"
        /\ result.error = InterceptorError(all_failed, LastInterceptor)

C5_Witness ==
  /\ pc = "done"
  /\ stop_point = "None"
  /\ all_failed = "read_before_signing"
  /\ faults = 1
  /\ last_decision = "No"
  /\ result = SdkError("DispatchFailure", InterceptorError("read_before_signing", LastInterceptor))

\* C6: the first rewind() (tainted = false) returns Unnecessary whether or not a
\* checkpoint is stored, sets tainted, and changes nothing else in the context.
C6_FirstRewindUnnecessary ==
  [][(pc = "rewind" /\ ~ctx.tainted) =>
       /\ rewind_result' = "Unnecessary"
       /\ ctx' = [ctx EXCEPT !.tainted = TRUE]]_vars

C6_Witness ==
  /\ rewind_result = "Unnecessary"
  /\ pc = "read_before_attempt"
  /\ ctx.tainted
  /\ IsSome(ctx.request_checkpoint)
  /\ Unwrap(ctx.request).version = "HTTP/2"

\* C7: a later rewind() on a context without a checkpoint returns Impossible and
\* leaves the context as the last attempt left it.
C7_RewindImpossibleChangesNothing ==
  [][(pc = "rewind" /\ ctx.tainted /\ IsNone(ctx.request_checkpoint)) =>
       /\ rewind_result' = "Impossible"
       /\ ctx' = ctx]_vars

C7_Witness ==
  /\ rewind_result = "Impossible"
  /\ pc = "modify_before_completion"
  /\ ctx.phase = "AfterDeserialization"
  /\ IsSome(ctx.response)
  /\ IsSome(ctx.output_or_error)

\* C8: a later rewind() on a context with a checkpoint returns Occurred and leaves
\* phase = BeforeTransmit, a request present, no response and no output_or_error.
C8_RewindOccurredResets ==
  [][(pc = "rewind" /\ ctx.tainted /\ IsSome(ctx.request_checkpoint)) =>
       /\ rewind_result' = "Occurred"
       /\ ctx'.phase = "BeforeTransmit"
       /\ IsSome(ctx'.request)
       /\ IsNone(ctx'.response)
       /\ IsNone(ctx'.output_or_error)]_vars

C8_Witness ==
  /\ rewind_result = "Occurred"
  /\ pc = "read_before_attempt"
  /\ ctx.phase = "BeforeTransmit"
  /\ IsSome(ctx.request)

\* C9: after rewind() returns Occurred the request has the checkpoint's method, target
\* and headers; rewind and the attempts leave the checkpoint as save_checkpoint made
\* it (the request as modify_before_retry_loop left it), so every attempt starts from
\* that request.
C9_RewindRestoresCheckpoint ==
  /\ [][(pc = "rewind" /\ rewind(ctx).result = "Occurred") =>
          /\ MethodTargetHeaders(Unwrap(ctx'.request))
               = MethodTargetHeaders(Unwrap(ctx.request_checkpoint))
          /\ ctx'.request_checkpoint = ctx.request_checkpoint]_vars
  /\ [][i >= 1 => ctx'.request_checkpoint = ctx.request_checkpoint]_vars
  /\ []((pc = "read_before_attempt" /\ IsSome(ctx.request_checkpoint)) =>
          /\ IsSome(ctx.request)
          /\ MethodTargetHeaders(Unwrap(ctx.request))
               = MethodTargetHeaders(Unwrap(ctx.request_checkpoint)))

C9_Witness ==
  /\ rewind_result = "Occurred"
  /\ pc = "read_before_attempt"
  /\ IsSome(ctx.request)
  /\ Unwrap(ctx.request).headers = {"test", "modify_before_retry_loop"}
  /\ Unwrap(ctx.request).uri = "/"

\* C10: the request checkpoint is written exactly once in an invocation, right
\* before the attempt loop is entered.
C10_CheckpointWrittenOnce ==
  /\ checkpoint_writes <= 1
  /\ checkpoint_writes = 1 => i >= 1

\* C11: in every step of the driver the context's phase stays where it is or moves
\* to the next phase of the order BeforeSerialization, Serialization, BeforeTransmit,
\* Transmit, BeforeDeserialization, Deserialization, AfterDeserialization; the only
\* other change is made by a rewind that returns Occurred, and it sets BeforeTransmit.
C11_PhaseMovesForward ==
  [][\/ ctx'.phase = ctx.phase
     \/ PhaseOrd(ctx'.phase) = PhaseOrd(ctx.phase) + 1
     \/ /\ pc = "rewind"
        /\ rewind(ctx).result = "Occurred"
        /\ ctx'.phase = "BeforeTransmit"]_vars

\* a second attempt has begun after a rewind that took the phase back from Transmit
\* or later, and then went forward through every phase again
C11_Witness ==
  /\ rewind_result = "Occurred"
  /\ i = 2
  /\ transport_calls = 2
  /\ ctx.phase = "AfterDeserialization"

\* C12 (as stated): on a fresh context the calls of LegalTrace, in order, pass every
\* enter_* precondition, and a call of enter_before_transmit_phase is rejected when
\* the phase is not Serialization, when the input has not been taken, or when no
\* request is set.
C12_IllegalOrderingRejected ==
  /\ [](IsPrefix(Names(opLog), LegalTrace) => (pc = "ctx_api" /\ ~assert_failed))
  /\ [][(/\ pc = "ctx_api"
         /\ Len(opLog') = Len(opLog) + 1
         /\ opLog'[Len(opLog')].name = "enter_before_transmit_phase"
         /\ \/ ctx.phase # "Serialization"
            \/ IsSome(ctx.input)
            \/ IsNone(ctx.request))
        => pc' = "panicked"]_vars

\* C12 (amended): the calls of LegalTrace, in order, pass every enter_* precondition
\* and end in AfterDeserialization; a call of enter_before_transmit_phase with no
\* request set is rejected in every build; a call with the phase not Serialization
\* or the input not taken is rejected where debug assertions are compiled in, and
\* otherwise takes effect and sets the phase to BeforeTransmit.
C12_IllegalOrderingRejectedInDebugBuilds ==
  /\ [](IsPrefix(Names(opLog), LegalTrace) => (pc = "ctx_api" /\ ~assert_failed))
  /\ [](Names(opLog) = LegalTrace => ctx.phase = "AfterDeserialization")
  /\ [][(/\ pc = "ctx_api"
         /\ Len(opLog') = Len(opLog) + 1
         /\ opLog'[Len(opLog')].name = "enter_before_transmit_phase"
         /\ \/ ctx.phase # "Serialization"
            \/ IsSome(ctx.input)
            \/ IsNone(ctx.request))
        => IF debug_assertions \/ IsNone(ctx.request)
           THEN pc' = "panicked" /\ ctx' = ctx
           ELSE pc' = "ctx_api" /\ ctx'.phase = "BeforeTransmit"]_vars

\* with debug assertions on, enter_before_transmit_phase was called in the
\* Serialization phase with a request set but the input not taken, and panicked
C12_Witness ==
  /\ debug_assertions
  /\ pc = "panicked"
  /\ Names(opLog) = <<"enter_serialization_phase", "set_request", "enter_before_transmit_phase">>

\* C13: in a run where should_attempt_initial_request answered Yes and
\* should_attempt_retry has never answered Yes or YesAfterDelay, once the loop body
\* has been entered exactly one attempt has been started and at most one transport
\* call has been made, whatever the attempt's outcome.
C13_NeverRetryOneAttempt ==
  (i >= 1 /\ NoInitialDelay /\ retries_granted = 0) =>
    /\ i = 1
    /\ attempts_started = (IF pc = "rewind" THEN 0 ELSE 1)
    /\ transport_calls <= 1

\* the strategy answered No after an attempt whose transport call failed, and the
\* invocation has returned
C13_Witness ==
  /\ pc = "done"
  /\ NoInitialDelay
  /\ retries_granted = 0
  /\ last_decision = "No"
  /\ attempts_started = 1
  /\ transport_calls = 1
  /\ is_failed(ctx)
  /\ Unwrap(ctx.output_or_error).kind = "connector"

C15_ReadBeforeExecutionFailureSkipsPipeline ==
  FailedAt(opLog, {"read_before_execution"}) =>
    /\ transport_calls = 0 /\ attempts_started = 0 /\ i = 0 /\ attLog = <<>>
    /\ \A k \in DOMAIN opLog :
         opLog[k].name \in {"read_before_execution"} \cup Range(OperationFinalizers)
    /\ (/\ pc = "done"
        /\ stop_point = "None"
        /\ ~ConfigurationFailed
        /\ \A k \in DOMAIN opLog : ~opLog[k].ok => opLog[k].name = "read_before_execution")
       => /\ GroupRanOnce(opLog, OperationFinalizers)
          /\ LET f == Failures(opLog) IN
             result = SdkError("ConstructionFailure",
                               InterceptorError("read_before_execution", f[Len(f)].by))

\* the first operation-scope interceptor alone failed at read_before_execution and
\* invoke has returned the construction failure after the finalizers
C15_Witness ==
  /\ pc = "done"
  /\ stop_point = "None"
  /\ transport_calls = 0
  /\ Len(Failures(opLog)) = 1
  /\ GroupRanOnce(opLog, OperationFinalizers)
  /\ result = SdkError("ConstructionFailure",
                       InterceptorError("read_before_execution", OperationInterceptors[1]))

\* C16: with StopPoint::BeforeTransmit the connector is never called and the context
\* never gets a response or a phase after BeforeTransmit; an attempt whose
\* read_before_transmit hooks succeeded goes straight to the attempt finalizers, which
\* run once in order, with the phase still BeforeTransmit; when the context is
\* returned the operation finalizers have run once in order. With StopPoint::None a
\* context returned in a phase after Transmit has a response set.
C16_StopPointBeforeTransmit ==
  /\ stop_point = "BeforeTransmit" =>
       /\ transport_calls = 0
       /\ IsNone(ctx.response)
       /\ PhaseOrd(ctx.phase) <= PhaseOrd("BeforeTransmit")
       /\ (pc = "should_attempt_retry" /\ RanOk(attLog, "read_before_transmit")) =>
            /\ ctx.phase = "BeforeTransmit"
            /\ GroupRanOnce(attLog, AttemptFinalizers)
            /\ \A k \in DOMAIN AfterLast(attLog, "read_before_transmit") :
                 AfterLast(attLog, "read_before_transmit")[k].name \in Range(AttemptFinalizers)
       /\ (pc = "done" /\ result.tag = "Ctx") => GroupRanOnce(opLog, OperationFinalizers)
  /\ (stop_point = "None" /\ pc = "done"
        /\ PhaseOrd(ctx.phase) > PhaseOrd("Transmit")) =>
       /\ IsSome(ctx.response)
       /\ transport_calls >= 1

\* an invocation with StopPoint::BeforeTransmit in which nothing failed has returned
\* its context after one attempt
C16_Witness ==
  /\ stop_point = "BeforeTransmit"
  /\ pc = "done"
  /\ result.tag = "Ctx"
  /\ faults = 0
  /\ attempts_started = 1
  /\ ctx.phase = "BeforeTransmit"
  /\ IsSome(ctx.request)
  /\ GroupRanOnce(opLog, OperationFinalizers)

C18_AttemptTimeoutReachesRetryDecision ==
  /\ [][(attLog' = Append(attLog, Ev("attempt_timeout", 0, FALSE))) =>
          /\ ctx'.output_or_error = Some(Err("timeout", "attempt", 0))
          /\ pc' = "should_attempt_retry"
          /\ i' = i
          /\ result' = NoResult]_vars
  /\ [](ctx.output_or_error = Some(Err("timeout", "attempt", 0)) =>
          /\ pc \in {"should_attempt_retry", "rewind"} \cup Range(OperationFinalizers)
                      \cup {"return", "done"}
          /\ pc \in (Range(OperationFinalizers) \cup {"return", "done"}) =>
               \/ last_decision = "No"
               \/ last_decision \in {"Yes", "YesAfterDelay"} /\ rewind_result = "Impossible")

\* the first attempt timed out, the strategy answered Yes and the loop is about to
\* rewind to the saved checkpoint for a second attempt
C18_Witness ==
  /\ pc = "rewind"
  /\ i = 2
  /\ last_decision = "Yes"
  /\ ctx.output_or_error = Some(Err("timeout", "attempt", 0))
  /\ IsSome(ctx.request_checkpoint)

\* C19: when the operation timeout has fired and the invocation has returned, the
\* timeout error is recorded on the context, the operation finalizers have run once
\* in order after it, and the retry strategy was asked about it.
C19_OperationTimeoutGoesThroughHaltMachinery ==
  (pc = "done" /\ FailedAt(opLog, {"operation_timeout"})) =>
    /\ ctx.output_or_error = Some(Err("timeout", "operation", 0))
    /\ GroupRanOnce(opLog, OperationFinalizers)
    /\ last_decision # ""

\* C20: when an invocation whose configuration step succeeded has returned, the
\* operation finalizers modify_before_completion and read_after_execution have each
\* run once, in that order, whatever failed before them.
C20_OperationFinalizersAlwaysRun ==
  (pc = "done" /\ ~ConfigurationFailed) => GroupRanOnce(opLog, OperationFinalizers)

\* C21: when the retry strategy is about to be consulted about an attempt, the attempt
\* finalizers modify_before_attempt_completion and read_after_attempt have each run
\* once in that attempt, in that order, whatever ended the attempt.
C21_AttemptFinalizersAlwaysRun ==
  pc = "should_attempt_retry" => GroupRanOnce(attLog, AttemptFinalizers)

\* C22: the input leaves the context in the serialization step and in no other step,
\* once absent it stays absent (through rewinds and retries too), it is absent in
\* every phase after BeforeSerialization, and the request serializer is called at
\* most once in an invocation.
C22_InputTakenOnce ==
  /\ [][IsNone(ctx.input) => IsNone(ctx'.input)]_vars
  /\ [][(IsSome(ctx.input) /\ IsNone(ctx'.input)) => pc = "serialize"]_vars
  /\ [](ctx.phase # "BeforeSerialization" => IsNone(ctx.input))
  /\ [](Len(HookRuns(opLog, "serialize_input")) <= 1)

\* a second attempt is running after a rewind that occurred; the input is still
\* absent and the serializer has been called once
C22_Witness ==
  /\ i = 2
  /\ rewind_result = "Occurred"
  /\ pc = "read_before_attempt"
  /\ IsNone(ctx.input)
  /\ Len(HookRuns(opLog, "serialize_input")) = 1

C24_LastFailureWins ==
  /\ [][(is_failed(ctx) /\ ~is_failed(ctx')) =>
          (pc = "rewind" /\ rewind(ctx).result = "Occurred")]_vars
  /\ []((pc = "should_attempt_retry" /\ FailedAt(attLog, Range(AttemptFinalizers))) =>
          ctx.output_or_error =
            Some(InterceptorError(LastFailure(attLog).name, LastFailure(attLog).by)))
  /\ []((pc \in {"return", "done"} /\ FailedAt(opLog, Range(OperationFinalizers))) =>
          /\ LastFailure(opLog).name \in Range(OperationFinalizers)
          /\ ctx.output_or_error =
               Some(InterceptorError(LastFailure(opLog).name, LastFailure(opLog).by)))

\* both operation finalizer hooks failed and invoke returned the error of
\* read_after_execution
C24_Witness ==
  /\ pc = "done"
  /\ stop_point = "None"
  /\ FailedAt(opLog, {"modify_before_completion"})
  /\ FailedAt(opLog, {"read_after_execution"})
  /\ result.tag = "Err"
  /\ result.error.kind = "interceptor"
  /\ result.error.source = "read_after_execution"

\* C25: the stored attempt number changes only at the top of a loop iteration whose
\* rewind is not Impossible, and then by exactly one, starting from 1; while an
\* iteration is in progress the number stored is that iteration's number and was
\* stored before any hook or step of the attempt; after an Impossible rewind the
\* number is still that of the previous attempt.
C25_AttemptNumberAdvancesByOne ==
  /\ [][attempts' # attempts =>
          /\ attempts' = attempts + 1
          /\ pc = "rewind"
          /\ rewind(ctx).result # "Impossible"]_vars
  /\ [](attLog # <<>> =>
          /\ attempts = i
          /\ attLog[1] = Ev("rewind", 0, TRUE)
          /\ attLog[2] = Ev("store_attempts", attempts, TRUE)
          /\ HookRuns(attLog, "store_attempts") = <<attLog[2]>>)
  /\ [](attempts_started \in {attempts, attempts - 1})
  /\ [](i = 0 => attempts = 0)
  /\ []((rewind_result = "Impossible" /\ pc # "rewind") => attempts = i - 1)

\* the retry strategy asked for a retry, the rewind was impossible and the
\* invocation ended with attempt number 1 stored
C25_Witness ==
  /\ pc = "done"
  /\ rewind_result = "Impossible"
  /\ i = 2
  /\ attempts = 1
  /\ attempts_started = 1

\* C26: when the delay of a retry-after answer is awaited, the iteration has done
\* exactly the rewind and the recording of the attempt number, in that order; the
\* attempt starts only when the delay is over; the attempt timeout does not fire while
\* the delay is awaited; and after an Impossible rewind no delay is awaited.
C26_BackoffOutsideAttemptTimeout ==
  /\ [](pc = "retry_delay_wait" =>
          /\ retry_delay
          /\ last_decision = "YesAfterDelay"
          /\ rewind_result = "Occurred"
          /\ attLog = <<Ev("rewind", 0, TRUE), Ev("store_attempts", i, TRUE)>>
          /\ attempts_started = i - 1)
  /\ [](\A k \in DOMAIN attLog : attLog[k].name = "sleep" => k = 3)
  /\ [][pc = "retry_delay_wait" =>
          /\ ctx'.output_or_error # Some(Err("timeout", "attempt", 0))
          /\ pc' \in {"read_before_attempt", "done"}
          /\ pc' = "read_before_attempt" =>
               (attempts_started' = attempts_started + 1 /\ ~retry_delay')]_vars
  /\ []((rewind_result = "Impossible" /\ pc # "rewind") =>
          /\ pc # "retry_delay_wait"
          /\ attLog = <<>>
          /\ last_decision = "YesAfterDelay" => retry_delay)

\* the second attempt is about to start after the rewind, the recording of attempt
\* number 2 and the awaited delay
C26_Witness ==
  /\ pc = "read_before_attempt"
  /\ i = 2
  /\ last_decision = "YesAfterDelay"
  /\ attLog = <<Ev("rewind", 0, TRUE), Ev("store_attempts", 2, TRUE), Ev("sleep", 0, TRUE)>>

\* C27: the loop step whose rewind returns Impossible leaves the context as the last
\* attempt left it, starts nothing and goes to the operation finalizers; it happens
\* only after a retry answer with no checkpoint stored; afterwards no attempt starts
\* and no transport call is made, and when invoke has returned the operation
\* finalizers have run once in order and, unless one of them failed, the result is the
\* last attempt's outcome.
C27_RewindImpossibleEndsLoopQuietly ==
  /\ [][(pc = "rewind" /\ rewind(ctx).result = "Impossible") =>
          /\ ctx' = ctx
          /\ pc' = "modify_before_completion"
          /\ UNCHANGED <<faults, attempts, attempts_started, transport_calls, opLog, result>>]_vars
  /\ [][rewind_result = "Impossible" =>
          /\ UNCHANGED <<attempts_started, transport_calls, i, rewind_result>>
          /\ (ctx' # ctx => FailedAt(opLog', Range(OperationFinalizers)))]_vars
  /\ []((rewind_result = "Impossible" /\ pc # "rewind") =>
          /\ IsNone(ctx.request_checkpoint)
          /\ retries_granted >= 1
          /\ last_decision \in {"Yes", "YesAfterDelay"}
          /\ pc \in Range(OperationFinalizers) \cup {"return", "done"}
          /\ pc = "done" => GroupRanOnce(opLog, OperationFinalizers))

\* the only attempt succeeded, the strategy asked for a retry, the body could not be
\* cloned, and invoke returned the attempt's output
C27_Witness ==
  /\ pc = "done"
  /\ stop_point = "None"
  /\ rewind_result = "Impossible"
  /\ faults = 0
  /\ transport_calls = 1
  /\ ctx.phase = "AfterDeserialization"
  /\ IsSome(ctx.response)
  /\ result = Result("Ok", "", Ok)

\* C28: the retry strategy is asked about the initial request at most once; while the
\* delay of a YesAfterDelay answer is awaited the checkpoint has not been saved and
\* the loop has not started; after a No answer or an error the context is failed, no
\* checkpoint is stored, no attempt has started (no attempt hook, no attempt number,
\* no transport call) and only the operation finalizers follow.
C28_InitialRequestDecision ==
  /\ Len(HookRuns(opLog, "should_attempt_initial_request")) <= 1
  /\ pc = "initial_delay" =>
       (i = 0 /\ attempts = 0 /\ ~FailedAt(opLog, {"should_attempt_initial_request"})
          /\ HookRuns(opLog, "save_checkpoint") = <<>>)
  /\ FailedAt(opLog, {"should_attempt_initial_request"}) =>
       /\ IsNone(ctx.request_checkpoint)
       /\ HookRuns(opLog, "save_checkpoint") = <<>>
       /\ i = 0 /\ attempts = 0 /\ attempts_started = 0 /\ transport_calls = 0
       /\ attLog = <<>>
       /\ pc \in Range(OperationFinalizers) \cup {"return", "done"}
       /\ pc = "modify_before_completion" => is_failed(ctx)
       /\ AfterFailureOnly(opLog, {"should_attempt_initial_request"}, OperationFinalizers)

\* C29: at every hook point the interceptors called are, in order, the client-scope
\* interceptors in registration order followed by the operation-scope interceptors in
\* registration order (at read_before_execution the client-scope ones are called
\* before the operation configuration is applied, the operation-scope ones after).
C29_ClientBeforeOperationInOrder ==
  /\ \A k \in DOMAIN opLog : opLog[k].name \in AllHooks => ~InAttempt(opLog[k].name)
  /\ \A k \in DOMAIN attLog : attLog[k].name \in AllHooks => InAttempt(attLog[k].name)
  /\ \A h \in Range(PreLoopHooks) \cup Range(OperationFinalizers) :
       Bys(HookRuns(opLog, h)) \in
         {<<>>, ClientInterceptors \o OperationInterceptors}
           \cup (IF h = "read_before_execution" THEN {ClientInterceptors} ELSE {})
  /\ \A h \in Range(AttemptHooks) \cup Range(AttemptFinalizers) :
       Bys(HookRuns(attLog, h)) \in {<<>>, ClientInterceptors \o OperationInterceptors}
  /\ pc \in {"apply_operation_configuration", "read_before_execution_operation"} =>
       Bys(HookRuns(opLog, "read_before_execution")) = ClientInterceptors

\* an invocation in which nothing failed has returned: every hook point of the
\* operation called the client-scope interceptor and then the operation-scope ones
C29_Witness ==
  /\ pc = "done"
  /\ faults = 0
  /\ transport_calls = 1
  /\ \A h \in Range(PreLoopHooks) \cup Range(OperationFinalizers) :
       Bys(HookRuns(opLog, h)) = ClientInterceptors \o OperationInterceptors

\* invoke returned the error of a failed hook
HookFailureReturned ==
  /\ pc = "done"
  /\ stop_point = "None"
  /\ result.tag = "Err"
  /\ result.error.kind = "interceptor"
  /\ result.error.source \in AllHooks

\* C30: the kind of the error invoke returns for a hook failure follows the phase of
\* the context at finalize: BeforeSerialization or Serialization gives a construction
\* failure, BeforeTransmit or Transmit a dispatch failure, BeforeDeserialization or
\* later a response error, and then the context holds the raw response; so a failing
\* operation finalizer after an attempt in which nothing else failed gives a response
\* error, and a failure from a hook before serialization, or from an operation
\* finalizer that ran after it, gives a construction failure.
C30_ErrorKindFollowsPhase ==
  HookFailureReturned =>
    /\ ctx.phase \in {"BeforeSerialization", "Serialization"} =>
         result.kind = "ConstructionFailure"
    /\ ctx.phase \in {"BeforeTransmit", "Transmit"} =>
         result.kind = "DispatchFailure"
    /\ ctx.phase \in {"BeforeDeserialization", "Deserialization", "AfterDeserialization"} =>
         result.kind = "ResponseError" /\ IsSome(ctx.response)
    /\ (Len(Failures(opLog)) = 1 /\ faults = 1 /\ transport_calls >= 1
          /\ FailedAt(opLog, Range(OperationFinalizers))) =>
         result.kind = "ResponseError"
    /\ FailedAt(opLog, {"read_before_execution", "modify_before_serialization",
                        "read_before_serialization"}) =>
         result.kind = "ConstructionFailure"

\* a pre-serialization hook failed, the operation finalizers ran and one of them
\* failed too, and invoke returned that finalizer's error as a construction failure
C30_Witness ==
  /\ HookFailureReturned
  /\ FailedAt(opLog, {"modify_before_serialization", "read_before_serialization"})
  /\ result.error.source \in Range(OperationFinalizers)
  /\ result.kind = "ConstructionFailure"

\* the operation timeout fired and invoke_with_stop_point returned its error
OperationTimedOut ==
  /\ result.kind = "TimeoutError"
  /\ result.error = Err("timeout", "operation", 0)

\* C31: invoke_with_stop_point returns Ok(context) even when a pipeline step failed:
\* the failure stays inside the returned context and becomes an Err only when invoke
\* (stop point None) finalizes it, and then it is the error the context holds; an Err
\* comes out of invoke_with_stop_point itself only when applying the configuration
\* failed or the operation timeout fired.
C31_PipelineFailureReturnedInContext ==
  /\ []((pc = "done" /\ stop_point # "None" /\ ~ConfigurationFailed /\ ~OperationTimedOut) =>
          result.tag = "Ctx")
  /\ []((pc = "done" /\ result.tag = "Err" /\ ~ConfigurationFailed /\ ~OperationTimedOut) =>
          /\ stop_point = "None"
          /\ is_failed(ctx)
          /\ result.error = Unwrap(ctx.output_or_error))
  /\ [][(result' # result /\ result'.tag = "Err") =>
          \/ pc \in {"apply_client_configuration", "apply_operation_configuration",
                     "build_runtime_components"} /\ ConfigurationFailed'
          \/ pc \in OperationSuspensionPoints /\ OperationTimedOut'
          \/ pc = "return" /\ stop_point = "None" /\ is_failed(ctx)]_vars

\* modify_before_retry_loop failed under StopPoint::BeforeTransmit, the operation
\* finalizers ran, and the caller got the context with the error inside it
C31_Witness ==
  /\ pc = "done"
  /\ stop_point = "BeforeTransmit"
  /\ result.tag = "Ctx"
  /\ ctx.output_or_error = Some(InterceptorError("modify_before_retry_loop", LastInterceptor))
  /\ IsNone(ctx.response)
  /\ RanOnce(opLog, "modify_before_completion")
  /\ RanOnce(opLog, "read_after_execution")

\* the calls of one hook point at which no interceptor failed
HookCalls(h) == [k \in DOMAIN MergedInterceptors |-> Ev(h, MergedInterceptors[k], TRUE)]

\* deserialization: the streaming path alone, or declined and followed by read_body
\* and the non-streaming parse
DeserializationSteps ==
  { <<Ev("deserialize_streaming", 0, TRUE)>>,
    <<Ev("deserialize_streaming", 0, FALSE), Ev("read_body", 0, TRUE),
      Ev("deserialize_nonstreaming", 0, TRUE)>> }

\* the events of an attempt in which nothing failed
CleanAttempt(deserialization) ==
  HookCalls("read_before_attempt")
    \o <<Ev("orchestrate_endpoint", 0, TRUE)>>
    \o HookCalls("modify_before_signing")
    \o HookCalls("read_before_signing")
    \o <<Ev("orchestrate_auth", 0, TRUE)>>
    \o HookCalls("read_after_signing")
    \o HookCalls("modify_before_transmit")
    \o HookCalls("read_before_transmit")
    \o <<Ev("connector_call", 0, TRUE)>>
    \o HookCalls("read_after_transmit")
    \o HookCalls("modify_before_deserialization")
    \o HookCalls("read_before_deserialization")
    \o deserialization
    \o HookCalls("read_after_deserialization")
    \o HookCalls("modify_before_attempt_completion")
    \o HookCalls("read_after_attempt")

\* what precedes try_attempt in a loop iteration
LoopHeadEvents == {"rewind", "store_attempts", "sleep"}

AttemptEvents(log) == SelectSeq(log, LAMBDA e : e.name \notin LoopHeadEvents)

\* C32: in an attempt where nothing fails and no stop point is set, the steps occur
\* exactly once each in this order: read_before_attempt, endpoint resolution,
\* modify_before_signing, read_before_signing, signing, read_after_signing,
\* modify_before_transmit, read_before_transmit, transport call, read_after_transmit,
\* modify_before_deserialization, read_before_deserialization, deserialization,
\* read_after_deserialization, modify_before_attempt_completion, read_after_attempt.
C32_AttemptStepOrder ==
  (pc = "should_attempt_retry" /\ stop_point = "None" /\ ~is_failed(ctx)) =>
    \E d \in DeserializationSteps : AttemptEvents(attLog) = CleanAttempt(d)

\* a second attempt, after a retry, completed without a failure, its response
\* parsed by the non-streaming path
C32_Witness ==
  /\ pc = "should_attempt_retry"
  /\ stop_point = "None"
  /\ ~is_failed(ctx)
  /\ i = 2
  /\ \E k \in DOMAIN attLog : attLog[k].name = "deserialize_nonstreaming"

\* the endpoint resolver and the signer
Collaborators == {"orchestrate_endpoint", "orchestrate_auth"}

\* collaborator c is called once in an attempt, right after the last interceptor of
\* hook before has succeeded, and when it succeeds the hook after comes next
CalledOnceBetween(log, c, before, after) ==
  /\ Len(HookRuns(log, c)) <= 1
  /\ \A k \in DOMAIN log :
       log[k].name = c =>
         /\ k > 1
         /\ log[k - 1] = Ev(before, LastInterceptor, TRUE)
         /\ RanOk(log, before)
         /\ \A j \in 1..k : log[j].name # after
         /\ (k < Len(log) /\ log[k].ok) => log[k + 1].name = after
  /\ (RanOk(log, before) /\ pc \notin {c, "done"}) =>
       \E k \in DOMAIN log :
         /\ k > 1
         /\ log[k].name \in {c, "attempt_timeout"}
         /\ log[k - 1].name = before

\* C33: in each attempt whose preceding hooks succeed, the endpoint resolver is
\* invoked exactly once (after read_before_attempt, before modify_before_signing) and
\* the signer exactly once (after read_before_signing, before read_after_signing); a
\* failure of either is attempt-fatal: no later main-pipeline hook runs and no
\* transport call is made in that attempt, the attempt finalizers run, and only the
\* retry decision follows them.
C33_ResolverAndSignerOncePerAttempt ==
  /\ CalledOnceBetween(attLog, "orchestrate_endpoint", "read_before_attempt",
                       "modify_before_signing")
  /\ CalledOnceBetween(attLog, "orchestrate_auth", "read_before_signing",
                       "read_after_signing")
  /\ FailedAt(attLog, Collaborators) =>
       /\ AfterFailureOnly(attLog, Collaborators, AttemptFinalizers)
       /\ \A k \in DOMAIN attLog : attLog[k].name # "connector_call"
       /\ is_failed(ctx)
       /\ pc \in {"modify_before_attempt_completion", "read_after_attempt",
                  "should_attempt_retry"}
       /\ pc = "should_attempt_retry" => GroupRanOnce(attLog, AttemptFinalizers)

\* the signer failed in a retried attempt after the resolver had succeeded in it; the
\* attempt finalizers ran and the retry decision is next
C33_Witness ==
  /\ pc = "should_attempt_retry"
  /\ i = 2
  /\ (\E k \in DOMAIN attLog : attLog[k] = Ev("orchestrate_endpoint", 0, TRUE))
  /\ FailedAt(attLog, {"orchestrate_auth"})
  /\ ctx.output_or_error = Some(OtherError("orchestrate_auth"))
  /\ GroupRanOnce(attLog, AttemptFinalizers)

\* C34: during deserialization the streaming path is tried first; the body is
\* buffered and the non-streaming parse called only if the streaming path declined;
\* if buffering fails the non-streaming parse is not called and output_or_error is a
\* response error; in every case output_or_error is set and the phase is
\* AfterDeserialization before read_after_deserialization runs.
C34_DeserializationPaths ==
  /\ \A k \in DOMAIN attLog :
       /\ attLog[k].name = "deserialize_streaming" =>
            /\ k > 1
            /\ attLog[k - 1] = Ev("read_before_deserialization", LastInterceptor, TRUE)
       /\ attLog[k].name = "read_body" =>
            /\ k > 1
            /\ attLog[k - 1] = Ev("deserialize_streaming", 0, FALSE)
       /\ attLog[k].name = "deserialize_nonstreaming" =>
            /\ k > 1
            /\ attLog[k - 1] = Ev("read_body", 0, TRUE)
       /\ attLog[k].name = "read_after_deserialization" =>
            /\ IsSome(ctx.output_or_error)
            /\ ctx.phase = "AfterDeserialization"
            /\ \E j \in 1..(k - 1) : attLog[j].name = "deserialize_streaming"
  /\ \A n \in {"deserialize_streaming", "read_body", "deserialize_nonstreaming"} :
       Len(HookRuns(attLog, n)) <= 1
  /\ (FailedAt(attLog, {"read_body"})
        /\ pc \in {"enter_after_deserialization", "read_after_deserialization"}) =>
       ctx.output_or_error = Some(Err("response", "read_body", 0))
  /\ pc = "enter_after_deserialization" =>
       IsSome(ctx.output_or_error) /\ ctx.phase = "Deserialization"
  /\ pc = "read_after_deserialization" =>
       IsSome(ctx.output_or_error) /\ ctx.phase = "AfterDeserialization"

\* the streaming path declined, buffering the body failed, and the attempt went on
\* through read_after_deserialization and its finalizers with the response error
C34_Witness ==
  /\ pc = "should_attempt_retry"
  /\ FailedAt(attLog, {"read_body"})
  /\ RanOk(attLog, "read_after_deserialization")
  /\ ctx.output_or_error = Some(Err("response", "read_body", 0))
  /\ ctx.phase = "AfterDeserialization"

\* C35: if applying the client or operation configuration, or building the merged
\* runtime components, fails, invoke returns a construction failure at once: apart
\* from the read_before_execution calls made before the failing step, no hook, no
\* finalizer hook, no serialization, no retry-strategy call and no transport call
\* happens, even if a client-scope read_before_execution interceptor had already
\* recorded a failure (the configuration error is what is returned).
C35_ConfigurationFailureReturnsAtOnce ==
  /\ [](ConfigurationFailed =>
          /\ pc = "done"
          /\ result = SdkError("ConstructionFailure", OtherError(result.error.source))
          /\ \A k \in DOMAIN opLog : opLog[k].name = "read_before_execution"
          /\ attLog = <<>>
          /\ IsSome(ctx.input) /\ IsNone(ctx.request)
          /\ ctx.phase = "BeforeSerialization"
          /\ last_decision = "" /\ i = 0
          /\ transport_calls = 0 /\ attempts_started = 0)
  /\ [][(pc \in {"apply_client_configuration", "apply_operation_configuration",
                 "build_runtime_components"} /\ faults' > faults) =>
          (pc' = "done" /\ ConfigurationFailed' /\ ctx' = ctx /\ opLog' = opLog)]_vars

\* a client-scope read_before_execution interceptor failed, then applying the
\* operation configuration failed and its error was returned
C35_Witness ==
  /\ ConfigurationFailed
  /\ result.error.source = "apply_operation_configuration"
  /\ ctx.output_or_error = Some(InterceptorError("read_before_execution", NumClient))
  /\ FailedAt(opLog, {"read_before_execution"})

\* C36: in every execution of the driver no enter_*_phase precondition is violated
\* and no presence check on context data fails: the input is present when
\* serialization takes it, a request is present and the phase is BeforeTransmit at
\* the start of every attempt and when the transport step takes the request, and a
\* response is present when deserialization reads it.
C36_DriverNeverViolatesPreconditions ==
  /\ ~assert_failed
  /\ pc = "serialize" => pre_enter_serialization_phase(ctx) /\ IsSome(ctx.input)
  /\ pc = "load_body" => IsSome(ctx.request)
  /\ pc = "enter_before_transmit" => pre_enter_before_transmit_phase(ctx)
  /\ pc \in {"read_before_attempt", "orchestrate_endpoint", "orchestrate_auth", "transmit"} =>
       pre_enter_transmit_phase(ctx) /\ IsSome(ctx.request)
  /\ pc = "await_response" =>
       pre_enter_before_deserialization_phase(set_response(ctx, "response"))
  /\ pc = "deserialize" => pre_enter_deserialization_phase(ctx) /\ IsSome(ctx.response)
  /\ pc = "read_body" => IsSome(ctx.response)
  /\ pc = "enter_after_deserialization" => pre_enter_after_deserialization_phase(ctx)

\* a first attempt failed after its transport call, the request was restored by a
\* rewind, and the second attempt has taken it and received a response; no
\* precondition was violated on the way
C36_Witness ==
  /\ pc = "deserialize"
  /\ i = 2
  /\ rewind_result = "Occurred"
  /\ transport_calls = 2
  /\ faults > 0
  /\ ~assert_failed

\* C37: whenever invoke (stop point None) reaches finalize, output_or_error is set:
\* after every completed or timed-out attempt, after every halt before the loop and
\* after a loop exit through rewind Impossible the context holds an output or an
\* error, so finalize's requirement is never violated.
C37_OutcomeSetAtFinalize ==
  stop_point = "None" =>
    /\ pc \in {"should_attempt_retry", "modify_before_completion", "read_after_execution",
               "return"} =>
         IsSome(ctx.output_or_error)
    /\ pc = "done" => result.tag # "panic"
    /\ (pc = "done" /\ ~ConfigurationFailed /\ ~OperationTimedOut) =>
         /\ IsSome(ctx.output_or_error)
         /\ result = finalize(ctx)

\* the loop was left through rewind Impossible after a timed-out attempt and a
\* granted retry; finalize found the timeout error of that attempt
C37_Witness ==
  /\ pc = "done"
  /\ stop_point = "None"
  /\ rewind_result = "Impossible"
  /\ ctx.output_or_error = Some(Err("timeout", "attempt", 0))
  /\ result = finalize(ctx)

\* an attempt that followed a failed attempt, a granted retry and a rewind has
\* completed with a success, no finalizer hook of it having failed
RetriedAttemptSucceeded ==
  /\ pc = "should_attempt_retry"
  /\ stop_point = "None"
  /\ rewind_result = "Occurred"
  /\ faults > 0
  /\ ~is_failed(ctx)

\* the operation finalizers leave a success alone unless one of them fails, and
\* finalize returns it; a rewind that occurs clears the outcome of the earlier
\* attempt, and an error is put on the context only by the step that fails
LaterAttemptOwnsOutcome ==
  /\ []((stop_point = "None" /\ pc = "done" /\ IsSome(ctx.output_or_error)
           /\ ~is_failed(ctx) /\ ~OperationTimedOut /\ ~ConfigurationFailed) =>
          result.tag = "Ok")
  /\ []((rewind_result = "Occurred" /\ pc \in {"retry_delay_wait", "read_before_attempt"}) =>
          IsNone(ctx.output_or_error))
  /\ [][(ctx'.output_or_error # ctx.output_or_error /\ is_failed(ctx')) =>
          \/ faults' > faults
          \/ ctx'.output_or_error = Some(OtherError("no_sleep_impl"))]_vars
  /\ [][(pc \in Range(OperationFinalizers) /\ faults' = faults) =>
          ctx'.output_or_error = ctx.output_or_error]_vars
  /\ [][(pc = "rewind" /\ rewind_result' = "Occurred") =>
          IsNone(ctx'.output_or_error) /\ IsNone(ctx'.response)]_vars

\* C38 (as stated): the final result reflects only the last attempt that ran: if an
\* attempt fails, the strategy asks for a retry, the rewind occurs and the next
\* attempt succeeds with no finalizer hook failing, invoke returns that success (the
\* loop ends with the success still on the context); an error recorded by an earlier
\* attempt never surfaces once a later attempt has started.
C38_LastAttemptDecidesResult ==
  /\ LaterAttemptOwnsOutcome
  /\ [][(RetriedAttemptSucceeded /\ pc' = "modify_before_completion") =>
          ctx'.output_or_error = ctx.output_or_error]_vars

\* C38 (amended): as above, provided the retry strategy then answers that no further
\* attempt is needed; when should_attempt_retry returns an error, or asks for a
\* delayed retry with no sleep implementation, that error replaces the success.
C38_LastAttemptDecidesResultWhenStrategyStops ==
  /\ LaterAttemptOwnsOutcome
  /\ [][(RetriedAttemptSucceeded /\ pc' = "modify_before_completion") =>
          \/ last_decision' = "No" /\ ctx'.output_or_error = ctx.output_or_error
          \/ /\ last_decision' \in {"Err", "YesAfterDelay"}
             /\ is_failed(ctx')
             /\ Unwrap(ctx'.output_or_error).source \in {"should_attempt_retry", "no_sleep_impl"}]_vars

\* the first attempt failed, the retry was granted, the rewind occurred, the second
\* attempt succeeded, the strategy said No and invoke returned the success
C38_Witness ==
  /\ pc = "done"
  /\ stop_point = "None"
  /\ rewind_result = "Occurred"
  /\ last_decision = "No"
  /\ faults > 0
  /\ i = 2
  /\ transport_calls = 2
  /\ ~FailedAt(opLog, Range(OperationFinalizers))
  /\ result.tag = "Ok"

\* the retry strategy ended the loop: should_attempt_retry returned an error, or a
\* delay was asked for and no sleep implementation is configured
StrategyHalted == last_decision = "Err" \/ sleep_impl = "None"

\* C39: if should_attempt_retry returns an error, or the strategy asks for a delayed
\* retry (or a delayed initial request) while no sleep implementation is configured,
\* the retry loop ends at once: the context is marked failed with that error,
\* replacing the attempt's outcome even when the attempt had succeeded, no further
\* attempt starts, and the operation finalizers still run.
C39_StrategyErrorEndsLoop ==
  /\ [][(pc = "should_attempt_retry"
           /\ (last_decision' = "Err" \/ sleep_impl' = "None")) =>
          /\ ctx' = fail(ctx, OtherError(IF last_decision' = "Err" THEN "should_attempt_retry"
                                         ELSE "no_sleep_impl"))
          /\ pc' = "modify_before_completion"]_vars
  /\ [][(pc = "should_attempt_initial_request" /\ sleep_impl' = "None") =>
          /\ ctx' = fail(ctx, OtherError("no_sleep_impl"))
          /\ pc' = "modify_before_completion"]_vars
  /\ [](StrategyHalted =>
          /\ pc \in {"modify_before_completion", "read_after_execution", "return", "done"}
          /\ is_failed(ctx)
          /\ ~FailedAt(opLog, Range(OperationFinalizers)) =>
               Unwrap(ctx.output_or_error).source \in {"should_attempt_retry", "no_sleep_impl"}
          /\ pc \in {"return", "done"} => GroupRanOnce(opLog, OperationFinalizers))
  /\ [][StrategyHalted =>
          /\ attempts_started' = attempts_started
          /\ transport_calls' = transport_calls
          /\ i' = i]_vars

\* the only attempt succeeded, should_attempt_retry returned an error, the operation
\* finalizers ran and invoke returned the strategy's error instead of the output
C39_Witness ==
  /\ pc = "done"
  /\ stop_point = "None"
  /\ last_decision = "Err"
  /\ faults = 1
  /\ transport_calls = 1
  /\ attempts_started = 1
  /\ GroupRanOnce(opLog, OperationFinalizers)
  /\ result.tag = "Err"
  /\ result.error = OtherError("should_attempt_retry")

\* the most retries the strategy grants in an invocation
MaxRetries == MaxAttempts - 1

\* should_attempt_retry calls so far: each one granted a retry or ended the loop
Consultations ==
  retries_granted + (IF last_decision \in {"No", "Err"} THEN 1 ELSE 0)

\* C40: if the retry strategy answers retry at most N times in an invocation and
\* every collaborator call and delay eventually completes, invoke eventually
\* returns, having started at most N+1 attempts, made at most one transport call per
\* attempt, and consulted should_attempt_retry at most once per attempt.
C40_InvokeTerminates ==
  /\ <>(pc = "done")
  /\ [](retries_granted <= MaxRetries =>
          /\ attempts_started <= retries_granted + 1
          /\ attempts_started <= MaxRetries + 1
          /\ transport_calls <= attempts_started
          /\ Len(HookRuns(attLog, "connector_call")) <= 1
          /\ Consultations <= attempts_started)

\* invoke returned after the strategy had granted every retry it could: each
\* attempt made its transport call and was followed by one retry decision
C40_Witness ==
  /\ pc = "done"
  /\ stop_point = "None"
  /\ retries_granted = MaxRetries
  /\ attempts_started = MaxRetries + 1
  /\ transport_calls = attempts_started
  /\ Consultations = attempts_started

====
